---- MODULE Spec2Model ----
(***************************************************************************)
(* A model of taskmux: the task graph validation of models.py, and the     *)
(* scheduler, health evaluator, lifecycle operations and log differ of     *)
(* tmux_manager.py.                                                        *)
(***************************************************************************)
EXTENDS Integers, Sequences, FiniteSets, TLC

VARIABLES
    \* --- task graph construction and scheduling
    gpc,        \* "new" -> "built" -> "sorted"
    rawTasks,   \* the task collection handed to TaskmuxConfig(...)
    config,     \* the object the construction produced (present = FALSE: none)
    verr,       \* the validation error the construction raised (kind "ok": none)
    topoIn,     \* the task_names argument of the last _toposort_tasks call
    topoOut,    \* its result (ok = FALSE: ValueError, dependency cycle)
    stored,     \* the tasks of taskmux.toml: [keys, deps], deps for the tasks that
                \* have a depends_on entry
    lastEdit    \* the last addTask or removeTask call, its arguments and its result

graphVars == <<gpc, rawTasks, config, verr, topoIn, topoOut, stored, lastEdit>>

VARIABLES
    \* --- one call of _wait_for_healthy
    wpc,        \* "test" (the while condition), "sleep", "done"
    wInterval,  \* task_cfg.health_interval
    wRetries,   \* the dependency's health_retries
    wTimeout,   \* the timeout argument
    elapsed,    \* the local elapsed
    probes,     \* the results of the is_task_healthy calls made so far
    sleeps,     \* the number of time.sleep(interval) calls made so far
    wret        \* the value returned (meaningful once wpc = "done")

waitVars == <<wpc, wInterval, wRetries, wTimeout, elapsed, probes, sleeps, wret>>

VARIABLES
    \* --- the log differ
    lpc,        \* "new", then "roundtrip" or "diff"; "follow", then "poll"
    capture1,   \* a first capture of a pane
    appended,   \* the lines the pane printed after it
    prevTail,   \* the prev_tail argument of _find_new_lines
    current,    \* the current argument
    newLines,   \* the result
    state,      \* the state dict of _tail_panes: the remembered tail of every task
    polled,     \* the task of the last poll
    polls,      \* the number of polls made so far
    grepOutput,   \* the output argument of _print_grep_results
    grepPattern,  \* its pattern argument
    grepContext,  \* its context argument
    printed       \* what it has printed

logVars == <<lpc, capture1, appended, prevTail, current, newLines, state, polled, polls,
             grepOutput, grepPattern, grepContext, printed>>

VARIABLES
    \* --- the orchestrator (TmuxManager) and the tmux server
    cfg,          \* TmuxManager.config
    shell,        \* the server's default shell: the command of a fresh pane
    session,      \* whether the server has a session named config.name
    windows,      \* the session's windows, in index order: [name, cmd]
    task_health,  \* TmuxManager.task_health
    lastOp,       \* the last operation called, its arguments and its result
    trace         \* what the last operation did to the hook runner and to tmux

orchVars == <<cfg, shell, session, windows, task_health, lastOp, trace>>

VARIABLES
    \* --- the daemon
    cliConfig,    \* TaskmuxCLI.config
    watcher,      \* ConfigWatcher.on_modified: "idle" -> "loaded" -> "assigned"
    reloads,      \* the number of config changes handled so far
    reader,       \* the coroutine the event loop runs: [pc, iter, out, split]
    observed,     \* what the last status request or health cycle has seen
    threads       \* the restart_task call each thread is in: [pc, task, window, ...]

daemonVars == <<cliConfig, watcher, reloads, reader, observed, threads>>

vars == <<graphVars, waitVars, logVars, orchVars, daemonVars>>

Range(s) == {s[i] : i \in 1..Len(s)}

SeqsUpTo(S, n) == UNION {[1..k -> S] : k \in 0..n}

\* the sequences over S in which no element occurs twice
DupFreeSeqs(S) ==
    {s \in SeqsUpTo(S, Cardinality(S)) : \A i, j \in 1..Len(s) : i # j => s[i] # s[j]}

RECURSIVE SumLen(_, _, _)
SumLen(keys, deps, i) ==
    IF i > Len(keys) THEN 0 ELSE Len(deps[keys[i]]) + SumLen(keys, deps, i + 1)

(***************************************************************************)
(* Task Graph: TaskmuxConfig and its depends_on validator                  *)
(***************************************************************************)

\* the keys of the tasks dict, in insertion order
AllKeys == <<"a", "b", "c">>

\* a name that is never a key of the task collection
UnknownName == "zz"

\* longest depends_on list of one task
MaxDeps == 2

\* most depends_on entries of a whole task collection
MaxEdges == 4

\* TaskConfig.depends_on is a list[str]: any names, repeats allowed
DependsOnLists == SeqsUpTo(Range(AllKeys) \cup {UnknownName}, MaxDeps)

\* the task collections a config file can hold: a dict name -> depends_on
TaskCollections ==
    UNION {
        {[keys |-> SubSeq(AllKeys, 1, n), deps |-> d] :
            d \in {e \in [Range(SubSeq(AllKeys, 1, n)) -> DependsOnLists] :
                     SumLen(SubSeq(AllKeys, 1, n), e, 1) <= MaxEdges}}
        : n \in 0..Len(AllKeys)}

NoError == [kind |-> "ok", task |-> "", dep |-> ""]

NoConfig == [present |-> FALSE, keys |-> <<>>, deps |-> <<>>]

\* models.py 60-65: the first offending depends_on entry, tasks in insertion
\* order and each task's entries in list order
RECURSIVE CheckRefs(_, _, _)
CheckRefs(tk, i, j) ==
    IF i > Len(tk.keys) THEN NoError
    ELSE LET name == tk.keys[i]
             ds == tk.deps[name]
         IN  IF j > Len(ds) THEN CheckRefs(tk, i + 1, 1)
             ELSE IF ds[j] \notin Range(tk.keys)
                  THEN [kind |-> "unknown", task |-> name, dep |-> ds[j]]
             ELSE IF ds[j] = name
                  THEN [kind |-> "self", task |-> name, dep |-> ds[j]]
             ELSE CheckRefs(tk, i, j + 1)

WHITE == 0
GRAY == 1
BLACK == 2

\* models.py 71-78: dfs(node); err is the dep found GRAY ("" while none is)
RECURSIVE Dfs(_, _, _), DfsDeps(_, _, _, _)

\* a variant of Dfs with two colours: a node is BLACK from the moment it is entered
DfsTwoColour(tk, node, color) ==
    DfsDeps(tk, node, 1, [color |-> [color EXCEPT ![node] = BLACK], err |-> ""])

Dfs(tk, node, color) ==
    LET r == DfsDeps(tk, node, 1, [color |-> [color EXCEPT ![node] = GRAY], err |-> ""])
    IN  IF r.err # "" THEN r
        ELSE [color |-> [r.color EXCEPT ![node] = BLACK], err |-> ""]

DfsDeps(tk, node, j, st) ==
    IF st.err # "" \/ j > Len(tk.deps[node]) THEN st
    ELSE LET dep == tk.deps[node][j]
         IN  IF st.color[dep] = GRAY THEN [st EXCEPT !.err = dep]
             ELSE IF st.color[dep] = WHITE
                  THEN DfsDeps(tk, node, j + 1, Dfs(tk, dep, st.color))
             ELSE DfsDeps(tk, node, j + 1, st)

\* models.py 80-82: for n in task_names (a set: ord is its iteration order)
RECURSIVE DfsAll(_, _, _, _)
DfsAll(tk, ord, k, st) ==
    IF st.err # "" \/ k > Len(ord) THEN st
    ELSE IF st.color[ord[k]] = WHITE
         THEN DfsAll(tk, ord, k + 1, Dfs(tk, ord[k], st.color))
    ELSE DfsAll(tk, ord, k + 1, st)

\* a variant of ValidateDependsOn that checks the references and skips the cycle search
ValidateRefsOnly(tk, ord) == CheckRefs(tk, 1, 1)

\* models.py 56-84: _validate_depends_on; the error raised, or NoError
ValidateDependsOn(tk, ord) ==
    LET r == CheckRefs(tk, 1, 1)
    IN  IF r.kind # "ok" THEN r
        ELSE LET c == DfsAll(tk, ord, 1,
                             [color |-> [n \in Range(tk.keys) |-> WHITE], err |-> ""])
             IN  IF c.err # "" THEN [kind |-> "cycle", task |-> "", dep |-> c.err]
                 ELSE NoError

(***************************************************************************)
(* Config edits: addTask and removeTask of config.py                       *)
(***************************************************************************)

\* longest depends_on list given to addTask
MaxEditDeps == 1

\* the edits of one run
MaxEdits == 4

\* the depends_on arguments of addTask: any names
EditDependsOn == SeqsUpTo(Range(AllKeys) \cup {UnknownName}, MaxEditDeps)

\* the orders in which the validator's loop over the set task_names can run
IterationOrders(keys) ==
    {ord \in [1..Len(keys) -> Range(keys)] : Range(ord) = Range(keys)}

\* config.py 26-30: taskmux.toml is missing, loadConfig returns the defaults
NoFile == [keys |-> <<>>, deps |-> <<>>]

\* config.py 101-124: writeConfig; depends_on is written for the tasks that have one
WriteConfig(tk) ==
    [keys |-> tk.keys,
     deps |-> [n \in {m \in Range(tk.keys) : tk.deps[m] # <<>>} |-> tk.deps[n]]]

\* config.py 26-63: loadConfig; a task without depends_on gets the default, []
LoadConfig(file) ==
    [keys |-> file.keys,
     deps |-> [n \in Range(file.keys) |->
                  IF n \in DOMAIN file.deps THEN file.deps[n] ELSE <<>>]]

\* config.py 141-149: new_tasks = dict(cfg.tasks); new_tasks[name] = TaskConfig(...)
WithTask(tk, name, depends_on) ==
    [keys |-> IF name \in Range(tk.keys) THEN tk.keys ELSE Append(tk.keys, name),
     deps |-> (name :> depends_on) @@ tk.deps]

\* config.py 160: {k: v for k, v in cfg.tasks.items() if k != name}
WithoutTask(tk, name) ==
    [keys |-> SelectSeq(tk.keys, LAMBDA k : k # name),
     deps |-> [n \in Range(tk.keys) \ {name} |-> tk.deps[n]]]

\* config.py 150-151, 161-162: TaskmuxConfig(..., tasks = new_tasks) validates, and
\* writeConfig runs when it has not raised
StoreValidated(file, new_tasks, ord) ==
    LET err == ValidateDependsOn(new_tasks, ord)
    IN  [error |-> err.kind,
         file |-> IF err.kind = "ok" THEN WriteConfig(new_tasks) ELSE file]

\* config.py 130-152: addTask(path, name, command, depends_on = ...)
AddTask ==
    /\ lastEdit.n < MaxEdits
    /\ \E name \in Range(AllKeys), depends_on \in EditDependsOn :
          LET new_tasks == WithTask(LoadConfig(stored), name, depends_on)
          IN  \E r \in {StoreValidated(stored, new_tasks, ord) :
                            ord \in IterationOrders(new_tasks.keys)} :
                     /\ stored' = r.file
                     /\ lastEdit' = [op |-> "addTask", name |-> name,
                                     depends_on |-> depends_on, before |-> stored,
                                     error |-> r.error, removed |-> FALSE,
                                     n |-> lastEdit.n + 1]
    /\ UNCHANGED <<gpc, rawTasks, config, verr, topoIn, topoOut>>
    /\ UNCHANGED <<waitVars, logVars, orchVars, daemonVars>>

\* config.py 155-163: removeTask(path, name)
RemoveTask ==
    /\ lastEdit.n < MaxEdits
    /\ \E name \in Range(AllKeys) \cup {UnknownName} :
          LET cfg0 == LoadConfig(stored)
              new_tasks == IF name \in Range(cfg0.keys) THEN WithoutTask(cfg0, name)
                           ELSE cfg0
          IN  \E r \in {IF name \notin Range(cfg0.keys)
                             THEN [error |-> "ok", file |-> stored]
                             ELSE StoreValidated(stored, new_tasks, ord) :
                            ord \in IterationOrders(new_tasks.keys)} :
                     /\ stored' = r.file
                     /\ lastEdit' = [op |-> "removeTask", name |-> name,
                                     depends_on |-> <<>>, before |-> stored,
                                     error |-> r.error,
                                     removed |-> name \in Range(cfg0.keys) /\ r.error = "ok",
                                     n |-> lastEdit.n + 1]
    /\ UNCHANGED <<gpc, rawTasks, config, verr, topoIn, topoOut>>
    /\ UNCHANGED <<waitVars, logVars, orchVars, daemonVars>>

(***************************************************************************)
(* Scheduler: TmuxManager._toposort_tasks                                  *)
(***************************************************************************)

\* a variant of InDegree that counts every depends_on entry, in the subset or not
InDegreeAnyDep(tk, names, n) == Len(tk.deps[n])

\* tmux_manager.py 144-147: in_degree[name], one per entry that is in name_set
InDegree(tk, names, n) ==
    Cardinality({j \in 1..Len(tk.deps[n]) : tk.deps[n][j] \in Range(names)})

\* tmux_manager.py 144-148: dependents[dep], appended in the order of the two loops
RECURSIVE Dependents(_, _, _, _, _)
Dependents(tk, names, dep, i, j) ==
    IF i > Len(names) THEN <<>>
    ELSE LET ds == tk.deps[names[i]]
         IN  IF j > Len(ds) THEN Dependents(tk, names, dep, i + 1, 1)
             ELSE IF ds[j] = dep
                  THEN <<names[i]>> \o Dependents(tk, names, dep, i, j + 1)
             ELSE Dependents(tk, names, dep, i, j + 1)

\* tmux_manager.py 156-159: for dep in dependents[node]
RECURSIVE Relax(_, _, _)
Relax(ds, k, st) ==
    IF k > Len(ds) THEN st
    ELSE LET n == st.indeg[ds[k]] - 1
         IN  Relax(ds, k + 1,
                   [indeg |-> [st.indeg EXCEPT ![ds[k]] = n],
                    queue |-> IF n = 0 THEN Append(st.queue, ds[k]) ELSE st.queue])

\* a variant of KahnLoop that takes the newest node of the queue, not the oldest
RECURSIVE KahnLoopLifo(_, _, _, _)
KahnLoopLifo(dependents, queue, indeg, result) ==
    IF queue = <<>> THEN result
    ELSE LET node == queue[Len(queue)]
             r == Relax(dependents[node], 1,
                        [indeg |-> indeg, queue |-> SubSeq(queue, 1, Len(queue) - 1)])
         IN  KahnLoopLifo(dependents, r.queue, r.indeg, Append(result, node))

\* tmux_manager.py 153-159: while queue
RECURSIVE KahnLoop(_, _, _, _)
KahnLoop(dependents, queue, indeg, result) ==
    IF queue = <<>> THEN result
    ELSE LET node == Head(queue)
             r == Relax(dependents[node], 1, [indeg |-> indeg, queue |-> Tail(queue)])
         IN  KahnLoop(dependents, r.queue, r.indeg, Append(result, node))

\* tmux_manager.py 137-164: _toposort_tasks(task_names)
ToposortTasks(tk, names) ==
    LET indeg == [n \in Range(names) |-> InDegree(tk, names, n)]
        dependents == [n \in Range(names) |-> Dependents(tk, names, n, 1, 1)]
        queue == SelectSeq(names, LAMBDA n : indeg[n] = 0)
        result == KahnLoop(dependents, queue, indeg, <<>>)
    IN  IF Len(result) # Len(names) THEN [ok |-> FALSE, order |-> <<>>]
        ELSE [ok |-> TRUE, order |-> result]

\* TaskmuxConfig(tasks = rawTasks): the validator runs, and an error leaves no object
Construct ==
    /\ gpc = "new"
    /\ \E ord \in DupFreeSeqs(Range(rawTasks.keys)) :
          /\ Len(ord) = Len(rawTasks.keys)
          /\ verr' = ValidateDependsOn(rawTasks, ord)
    /\ config' = IF verr'.kind = "ok"
                 THEN [present |-> TRUE, keys |-> rawTasks.keys, deps |-> rawTasks.deps]
                 ELSE NoConfig
    /\ gpc' = "built"
    /\ UNCHANGED <<rawTasks, topoIn, topoOut, stored, lastEdit>>
    /\ UNCHANGED <<waitVars, logVars, orchVars, daemonVars>>

\* _toposort_tasks on a duplicate-free list of the config's task names
Toposort ==
    /\ gpc = "built"
    /\ config.present
    /\ \E names \in DupFreeSeqs(Range(config.keys)) :
          /\ topoIn' = names
          /\ topoOut' = ToposortTasks(config, names)
    /\ gpc' = "sorted"
    /\ UNCHANGED <<rawTasks, config, verr, stored, lastEdit>>
    /\ UNCHANGED <<waitVars, logVars, orchVars, daemonVars>>

(***************************************************************************)
(* Health Evaluator: TmuxManager._wait_for_healthy                         *)
(***************************************************************************)

\* largest health_interval (seconds) of a task
MaxInterval == 3

\* largest health_retries of a task
MaxRetries == 3

\* largest timeout argument besides the derived retries * interval
MaxTimeout == 4

\* most probes of one call the model follows (a call with interval 0 and a
\* positive timeout polls for as long as the probe fails)
MaxProbes == 12

\* a variant of WaitContinues that also loops when elapsed has reached timeout
WaitContinuesAtDeadline(e, timeout) == e <= timeout

\* tmux_manager.py 171: while elapsed < timeout
WaitContinues(e, timeout) == e < timeout

\* a variant of WaitFinalResult that gives up without a last measurement
WaitFinalGivesUp(healthy) == FALSE

\* tmux_manager.py 176: return self.is_task_healthy(task_name)
WaitFinalResult(healthy) == healthy

\* tmux_manager.py 171-173: the loop is entered and the task is probed
WaitProbe ==
    /\ wpc = "test"
    /\ WaitContinues(elapsed, wTimeout)
    /\ Len(probes) < MaxProbes
    /\ \E healthy \in BOOLEAN :
          /\ probes' = Append(probes, healthy)
          /\ IF healthy
             THEN wret' = TRUE /\ wpc' = "done"
             ELSE wret' = wret /\ wpc' = "sleep"
    /\ UNCHANGED <<wInterval, wRetries, wTimeout, elapsed, sleeps>>
    /\ UNCHANGED <<graphVars, logVars, orchVars, daemonVars>>

\* tmux_manager.py 174-175: time.sleep(interval); elapsed += interval
WaitSleep ==
    /\ wpc = "sleep"
    /\ sleeps' = sleeps + 1
    /\ elapsed' = elapsed + wInterval
    /\ wpc' = "test"
    /\ UNCHANGED <<wInterval, wRetries, wTimeout, probes, wret>>
    /\ UNCHANGED <<graphVars, logVars, orchVars, daemonVars>>

\* tmux_manager.py 176: the loop is left and the task is probed once more
WaitFinal ==
    /\ wpc = "test"
    /\ ~WaitContinues(elapsed, wTimeout)
    /\ Len(probes) < MaxProbes
    /\ \E healthy \in BOOLEAN :
          /\ probes' = Append(probes, healthy)
          /\ wret' = WaitFinalResult(healthy)
    /\ wpc' = "done"
    /\ UNCHANGED <<wInterval, wRetries, wTimeout, elapsed, sleeps>>
    /\ UNCHANGED <<graphVars, logVars, orchVars, daemonVars>>

(***************************************************************************)
(* Log Differ: _find_new_lines                                             *)
(***************************************************************************)

\* the lines a pane can show
Lines == {"x", "y"}

\* tmux_manager.py 481: state[task_name] = output[-50:]
TailCap == 50

\* longest short capture; a long capture is LongPrefix followed by a short one
MaxCapture == 3

\* most lines appended between two captures
MaxNew == 3

\* longest prev_tail that is not the tail of a capture
MaxTail == 3

Min(a, b) == IF a <= b THEN a ELSE b

\* TailCap lines, not all alike
LongPrefix == [i \in 1..TailCap |-> IF i % 3 = 0 THEN "y" ELSE "x"]

Captures ==
    LET short == SeqsUpTo(Lines, MaxCapture)
    IN  short \cup {LongPrefix \o s : s \in short}

\* tmux_manager.py 481: output[-50:]
TailOf(output) == SubSeq(output, Len(output) - Min(TailCap, Len(output)) + 1, Len(output))

\* a variant of ScanBack that aligns on the last line alone, without the context
RECURSIVE ScanBackNoContext(_, _, _)
ScanBackNoContext(cur, prev, i) ==
    IF i < 1 THEN cur
    ELSE IF cur[i] = prev[Len(prev)] THEN SubSeq(cur, i + 1, Len(cur))
    ELSE ScanBackNoContext(cur, prev, i - 1)

\* tmux_manager.py 25-30: for i in range(len(current) - 1, -1, -1); i is 1-based here
RECURSIVE ScanBack(_, _, _)
ScanBack(cur, prev, i) ==
    IF i < 1 THEN cur
    ELSE LET ctx == Min(Len(prev), i)
         IN  IF /\ cur[i] = prev[Len(prev)]
                /\ SubSeq(cur, i - ctx + 1, i) = SubSeq(prev, Len(prev) - ctx + 1, Len(prev))
             THEN SubSeq(cur, i + 1, Len(cur))
             ELSE ScanBack(cur, prev, i - 1)

\* tmux_manager.py 20-30: _find_new_lines(current, prev_tail)
FindNewLines(cur, prev) ==
    IF prev = <<>> THEN cur ELSE ScanBack(cur, prev, Len(cur))

\* tmux_manager.py 470-481: a poll remembers the tail of capture1, the pane prints
\* `appended`, and the next poll diffs the new capture against the remembered tail
RoundTrip ==
    /\ lpc = "new"
    /\ prevTail' = TailOf(capture1)
    /\ current' = capture1 \o appended
    /\ newLines' = FindNewLines(current', prevTail')
    /\ lpc' = "roundtrip"
    /\ UNCHANGED <<capture1, appended, state, polled, polls>>
    /\ UNCHANGED <<grepOutput, grepPattern, grepContext, printed>>
    /\ UNCHANGED <<graphVars, waitVars, orchVars, daemonVars>>

\* _find_new_lines on a capture and any remembered tail
Diff ==
    /\ lpc = "new"
    /\ \E prev \in SeqsUpTo(Lines, MaxTail) : prevTail' = prev
    /\ current' = capture1 \o appended
    /\ newLines' = FindNewLines(current', prevTail')
    /\ lpc' = "diff"
    /\ UNCHANGED <<capture1, appended, state, polled, polls>>
    /\ UNCHANGED <<grepOutput, grepPattern, grepContext, printed>>
    /\ UNCHANGED <<graphVars, waitVars, orchVars, daemonVars>>

\* the tasks whose panes logs -f follows
FollowTasks == {"db", "api"}

\* the polls of one follow
MaxPolls == 3

\* longest short capture of a poll
MaxRaw == 2

\* what capture-pane prints: lines, and blank lines where the pane is empty
RawCaptures ==
    LET short == SeqsUpTo(Lines \cup {""}, MaxRaw)
    IN  short \cup {LongPrefix \o s : s \in short}

\* tmux_manager.py 467-468: while output and not output[-1].strip(): output.pop()
RECURSIVE StripTrailingBlank(_)
StripTrailingBlank(output) ==
    IF output # <<>> /\ output[Len(output)] = ""
    THEN StripTrailingBlank(SubSeq(output, 1, Len(output) - 1))
    ELSE output

\* tmux_manager.py 480-481: if output: state[task_name] = output[-50:]
Remember(st, t, output) ==
    IF output # <<>> THEN [st EXCEPT ![t] = TailOf(output)] ELSE st

\* tmux_manager.py 465-481: one poll of one pane in _tail_panes (no grep filter)
Poll ==
    /\ lpc \in {"follow", "poll"}
    /\ polls < MaxPolls
    /\ \E t \in FollowTasks, raw \in RawCaptures :
          LET output == StripTrailingBlank(raw)
          IN  /\ polled' = t
              /\ current' = output
              /\ prevTail' = state[t]
              /\ newLines' = FindNewLines(output, state[t])
              /\ state' = Remember(state, t, output)
    /\ polls' = polls + 1
    /\ lpc' = "poll"
    /\ UNCHANGED <<capture1, appended>>
    /\ UNCHANGED <<grepOutput, grepPattern, grepContext, printed>>
    /\ UNCHANGED <<graphVars, waitVars, orchVars, daemonVars>>

\* the characters of a line; a line and a pattern are sequences of them
GrepChars == {"e", "E", "k"}

\* str.lower() on a character
LowerChar(ch) == IF ch = "E" THEN "e" ELSE ch

\* str.lower()
Lower(str) == [i \in 1..Len(str) |-> LowerChar(str[i])]

\* the `in` of two strings: pat is a substring of str
Contains(str, pat) ==
    \E i \in 0..(Len(str) - Len(pat)) : SubSeq(str, i + 1, i + Len(pat)) = pat

\* the lines of the captures static grep mode is run on
GrepLines == {<<"e">>, <<"E">>, <<"k">>, <<"k", "E">>}

GrepPatterns == {<<"e">>, <<"E">>, <<"k", "e">>}

\* longest capture of static grep mode
MaxGrepLen == 6

\* largest context
MaxContext == 2

\* a variant of MatchingIndices that compares case-sensitively
MatchingIndicesCaseSensitive(output, pattern) ==
    {i \in 0..(Len(output) - 1) : Contains(output[i + 1], pattern)}

\* tmux_manager.py 644-647: matching_indices (0-based, as in the source)
MatchingIndices(output, pattern) ==
    {i \in 0..(Len(output) - 1) : Contains(Lower(output[i + 1]), Lower(pattern))}

\* tmux_manager.py 654-659: the set of lines to show
ShowSet(output, matching, context) ==
    {idx + offset : idx \in matching, offset \in (0 - context)..context}
        \cap (0..(Len(output) - 1))

\* sorted(show)
RECURSIVE Sorted(_)
Sorted(S) ==
    IF S = {} THEN <<>>
    ELSE LET m == CHOOSE x \in S : \A y \in S : x <= y
         IN  <<m>> \o Sorted(S \ {m})

PrintedSep == [kind |-> "--", marker |-> "", idx |-> 0 - 1]

PrintedLine(marker, i) == [kind |-> "line", marker |-> marker, idx |-> i]

PrintedNoMatch == [kind |-> "No matches", marker |-> "", idx |-> 0 - 1]

\* tmux_manager.py 661-667: the loop over sorted(show), from the k-th element on
RECURSIVE PrintLoop(_, _, _, _)
PrintLoop(order, matching, k, last_printed) ==
    IF k > Len(order) THEN <<>>
    ELSE LET i == order[k]
             sep == IF i > last_printed + 1 THEN <<PrintedSep>> ELSE <<>>
             marker == IF i \in matching THEN ">" ELSE " "
         IN  sep \o <<PrintedLine(marker, i)>> \o PrintLoop(order, matching, k + 1, i)

\* tmux_manager.py 642-667: _print_grep_results; what it prints
PrintGrepResults(output, pattern, context) ==
    LET matching == MatchingIndices(output, pattern)
    IN  IF matching = {} THEN <<PrintedNoMatch>>
        ELSE PrintLoop(Sorted(ShowSet(output, matching, context)), matching, 1, 0 - 2)

\* tmux_manager.py 535-537: logs --grep on a capture
Grep ==
    /\ lpc = "grep"
    /\ printed' = PrintGrepResults(grepOutput, grepPattern, grepContext)
    /\ lpc' = "printed"
    /\ UNCHANGED <<capture1, appended, prevTail, current, newLines, state, polled, polls>>
    /\ UNCHANGED <<grepOutput, grepPattern, grepContext>>
    /\ UNCHANGED <<graphVars, waitVars, orchVars, daemonVars>>

(***************************************************************************)
(* Lifecycle Orchestrator: TmuxManager, the hook runner and the tmux server *)
(***************************************************************************)

\* the tasks of the orchestrated config, in insertion order
OrchKeys == <<"db", "api">>

\* a task name that is not in the config
GhostTask == "ghost"

HookKinds == {"before_start", "after_start", "before_stop", "after_stop"}

\* a HookConfig whose four commands are all v: "none" (no hook), "ok" (a command
\* that exits 0) or "fail" (a command that does not); or, for "afterfail", one
\* whose after_start command fails and whose other commands exit 0
HookConfig(v) ==
    [k \in HookKinds |->
        IF v = "afterfail" THEN (IF k = "after_start" THEN "fail" ELSE "ok") ELSE v]

\* the global and the task-level hooks of the configs below
HookChoices ==
    {<<"none", "none">>, <<"ok", "ok">>, <<"ok", "fail">>, <<"fail", "ok">>,
     <<"afterfail", "afterfail">>}

\* the configs the orchestrator runs on (cwd is None in all of them): db has a
\* health-check command, api has none and depends on db; every auto_start flag has
\* its default, true
OrchConfigs ==
    {[keys |-> OrchKeys,
      auto_start |-> TRUE,
      hooks |-> HookConfig(h[1]),
      tasks |-> [db  |-> [health_check |-> "curl", depends_on |-> <<>>,
                          hooks |-> HookConfig(h[2]), auto_start |-> TRUE,
                          health_retries |-> 3, health_interval |-> 2],
                 api |-> [health_check |-> "none", depends_on |-> <<"db">>,
                          hooks |-> HookConfig(h[2]), auto_start |-> TRUE,
                          health_retries |-> 2, health_interval |-> 5]]]
        : h \in HookChoices}

\* what subprocess.run(health_check, timeout = health_timeout) does: it returns
\* with exit code 0 or another, or it raises
ProbeOutcomes == {"exit0", "exit1", "TimeoutExpired", "OSError"}

\* the foreground commands a task's pane reports besides the shell
NonShellCmds == {"", "node"}

TaskKeys(c) == Range(c.keys)

\* a variant of HasWindow that never finds the window
HasWindowNever(wins, name) == FALSE

\* sess.windows.get(window_name = name, default = None)
HasWindow(wins, name) == \E i \in 1..Len(wins) : wins[i].name = name

WindowOf(wins, name) == CHOOSE i \in 1..Len(wins) : wins[i].name = name

\* what subprocess.run(hook_cmd, shell = True, timeout = 30) does: it returns with
\* exit code 0 or another, or it raises
HookOutcomes == {"exit0", "exit1", "TimeoutExpired", "OSError", "ValueError"}

\* a variant of HookCaught that handles the timeout only
HookCaughtTimeoutOnly == {"TimeoutExpired"}

\* hooks.py 29-34: except subprocess.TimeoutExpired, then except Exception
HookCaught == {"TimeoutExpired", "OSError", "ValueError"}

\* hooks.py 6-36: runHook(hook_cmd, task_name) when the command does o
RunHookOn(cmd, o) ==
    IF cmd = "none" THEN [ret |-> TRUE, executed |-> FALSE, raised |-> FALSE]
    ELSE IF o = "exit0" THEN [ret |-> TRUE, executed |-> TRUE, raised |-> FALSE]
    ELSE IF o = "exit1" THEN [ret |-> FALSE, executed |-> TRUE, raised |-> FALSE]
    ELSE [ret |-> FALSE, executed |-> TRUE, raised |-> o \notin HookCaught]

\* what the hook commands of the configs do: "ok" exits 0, "fail" exits 1
HookOutcomeOf(cmd) == IF cmd = "fail" THEN "exit1" ELSE "exit0"

\* a variant of RunHook that reports every hook as successful
RunHookAlwaysTrue(cmd) == TRUE

\* hooks.py 6-36: runHook's return value for a hook command of the configs
RunHook(cmd) == RunHookOn(cmd, HookOutcomeOf(cmd)).ret

\* hooks.py 8-21: a hook that is not None is executed
HookEvents(cmd, scope, kind, t) ==
    IF cmd = "none" THEN <<>> ELSE << <<"hook", scope, kind, t, cmd>> >>

WithHook(w, cmd, scope, kind, t) ==
    [w EXCEPT !.trace = @ \o HookEvents(cmd, scope, kind, t)]

\* tmux_manager.py 69-80: _is_pane_alive
IsPaneAlive(w, t) ==
    /\ w.session
    /\ HasWindow(w.windows, t)
    /\ LET cmd == w.windows[WindowOf(w.windows, t)].cmd
       IN  cmd # "" /\ cmd # "bash"

\* a variant of HealthCaught that lets OSError through
HealthCaughtTimeoutOnly == {"TimeoutExpired"}

\* tmux_manager.py 99: except (subprocess.TimeoutExpired, OSError)
HealthCaught == {"TimeoutExpired", "OSError"}

\* tmux_manager.py 82-100: is_task_healthy; o is what the health command does
IsTaskHealthy(c, w, t, o) ==
    IF t \notin TaskKeys(c)
    THEN [ret |-> FALSE, raised |-> FALSE, pane_read |-> FALSE]
    ELSE IF c.tasks[t].health_check \in {"none", ""}
    THEN [ret |-> IsPaneAlive(w, t), raised |-> FALSE, pane_read |-> TRUE]
    ELSE IF o \in {"exit0", "exit1"}
    THEN [ret |-> (o = "exit0"), raised |-> FALSE, pane_read |-> FALSE]
    ELSE [ret |-> FALSE, raised |-> o \notin HealthCaught, pane_read |-> FALSE]

\* tmux_manager.py 102-122: get_task_status, the fields that vary (healthy, the
\* result of one more probe of a running task, is left out: nothing reads it)
GetTaskStatus(c, w, t) ==
    [running |-> w.session /\ HasWindow(w.windows, t)]

\* tmux_manager.py 124-135: _send_command_to_window
SendCommandToWindow(w, sh, t) ==
    [w EXCEPT !.windows = Append(@, [name |-> t, cmd |-> sh]),
              !.trace = @ \o << <<"new_window", t>>, <<"keys", t, "command">> >>]

\* a variant of ReuseDefaultWindow that sends the command and leaves the name
ReuseDefaultWindowUnnamed(w, t) ==
    [w EXCEPT !.trace = @ \o << <<"keys", t, "command">> >>]

\* tmux_manager.py 213-218: the placeholder window is renamed and gets the command
ReuseDefaultWindow(w, t) ==
    [w EXCEPT !.windows = [@ EXCEPT ![1].name = t],
              !.trace = @ \o << <<"rename_window", t>>, <<"keys", t, "command">> >>]

\* a variant of AfterStartGate that stops after a failed hook
AfterStartGateClosed(ok) == ok

\* tmux_manager.py 224-225, 318: the result of runHook(...after_start...) is not read
AfterStartGate(ok) == TRUE

\* a variant of StartTaskOp that does not look for the window of the task
StartTaskOpFresh(c, w0, sh, t) ==
    IF t \notin TaskKeys(c) \/ ~w0.session THEN w0
    ELSE SendCommandToWindow(w0, sh, t)

\* tmux_manager.py 178-226: start_task
StartTaskOp(c, w0, sh, t) ==
    IF t \notin TaskKeys(c) THEN w0
    ELSE LET w1 == IF w0.session THEN w0
                   ELSE [w0 EXCEPT !.session = TRUE,
                                   !.windows = << [name |-> sh, cmd |-> sh] >>,
                                   !.trace = Append(@, <<"new_session">>)]
         IN  IF HasWindow(w1.windows, t) THEN w1
             ELSE LET gb == c.hooks["before_start"]
                      tb == c.tasks[t].hooks["before_start"]
                      w2 == WithHook(w1, gb, "global", "before_start", t)
                      w3 == WithHook(w2, tb, "task", "before_start", t)
                      w4 == IF Len(w3.windows) = 1 /\ w3.windows[1].name # t
                            THEN IF w3.windows[1].name \in {"bash", "zsh", "sh", "fish"}
                                 THEN ReuseDefaultWindow(w3, t)
                                 ELSE SendCommandToWindow(w3, sh, t)
                            ELSE SendCommandToWindow(w3, sh, t)
                      w5 == WithHook(w4, c.tasks[t].hooks["after_start"],
                                     "task", "after_start", t)
                  IN  IF ~RunHook(gb) THEN w2
                      ELSE IF ~RunHook(tb) THEN w3
                      ELSE IF ~AfterStartGate(RunHook(c.tasks[t].hooks["after_start"]))
                      THEN w5
                      ELSE WithHook(w5, c.hooks["after_start"], "global", "after_start", t)

\* a variant of SendInterrupt that sends the interrupt twice
SendInterruptTwice(w, t) ==
    [w EXCEPT !.trace = @ \o << <<"keys", t, "C-c">>, <<"keys", t, "C-c">> >>]

\* tmux_manager.py 250-252: pane.send_keys("C-c")
SendInterrupt(w, t) == [w EXCEPT !.trace = Append(@, <<"keys", t, "C-c">>)]

\* tmux_manager.py 244-256: what stop_task does to a task that has a window; the
\* results of the four hooks are not looked at
StopSequence(c, w, t) ==
    LET w1 == WithHook(w, c.hooks["before_stop"], "global", "before_stop", t)
        w2 == WithHook(w1, c.tasks[t].hooks["before_stop"], "task", "before_stop", t)
        w3 == SendInterrupt(w2, t)
        w4 == WithHook(w3, c.tasks[t].hooks["after_stop"], "task", "after_stop", t)
    IN  WithHook(w4, c.hooks["after_stop"], "global", "after_stop", t)

\* a variant of StopTaskOp that does not look for the session and the window
StopTaskOpUnguarded(c, w0, t) ==
    IF t \notin TaskKeys(c) THEN w0 ELSE StopSequence(c, w0, t)

\* tmux_manager.py 228-257: stop_task
StopTaskOp(c, w0, t) ==
    IF ~w0.session THEN w0
    ELSE IF t \notin TaskKeys(c) THEN w0
    ELSE IF ~HasWindow(w0.windows, t) THEN w0
    ELSE StopSequence(c, w0, t)

\* tmux_manager.py 360-395: restart_task
RestartTaskOp(c, w0, sh, t) ==
    LET w == [w0 EXCEPT !.trace = Append(@, <<"call", "restart_task", t>>)]
        h == IF t \in TaskKeys(c) THEN c.tasks[t].hooks ELSE [k \in HookKinds |-> "none"]
    IN  IF ~w.session THEN w
        ELSE IF t \notin TaskKeys(c) THEN w
        ELSE IF HasWindow(w.windows, t)
        THEN LET w1 == WithHook(w, h["before_stop"], "task", "before_stop", t)
                 w2 == [w1 EXCEPT !.trace = Append(@, <<"keys", t, "C-c">>)]
                 w3 == WithHook(w2, h["after_stop"], "task", "after_stop", t)
                 w4 == WithHook(w3, h["before_start"], "task", "before_start", t)
                 w5 == [w4 EXCEPT !.trace = Append(@, <<"keys", t, "command">>)]
             IN  WithHook(w5, h["after_start"], "task", "after_start", t)
        ELSE LET w1 == WithHook(w, h["before_start"], "task", "before_start", t)
                 w2 == SendCommandToWindow(w1, sh, t)
             IN  WithHook(w2, h["after_start"], "task", "after_start", t)

\* the windows without the i-th
RemoveAt(wins, i) == SubSeq(wins, 1, i - 1) \o SubSeq(wins, i + 1, Len(wins))

\* a variant of KillWindow that kills nothing
KillWindowNot(w, t) == w

\* tmux_manager.py 405: window.kill(); tmux ends a session with its last window
KillWindow(w, t) ==
    LET rest == RemoveAt(w.windows, WindowOf(w.windows, t))
    IN  [w EXCEPT !.windows = rest,
                  !.session = (rest # <<>>),
                  !.trace = Append(@, <<"kill_window", t>>)]

\* tmux_manager.py 397-408: kill_task
KillTaskOp(w0, t) ==
    IF ~w0.session THEN w0
    ELSE IF HasWindow(w0.windows, t) THEN KillWindow(w0, t)
    ELSE w0

\* tmux_manager.py 410-451: inspect_task, the fields of the result that vary
InspectTaskOp(c, w, t, o) ==
    IF t \notin TaskKeys(c)
    THEN [error |-> TRUE, running |-> FALSE, healthy |-> FALSE, raised |-> FALSE]
    ELSE IF ~w.session \/ ~HasWindow(w.windows, t)
    THEN [error |-> FALSE, running |-> FALSE, healthy |-> FALSE, raised |-> FALSE]
    ELSE [error |-> FALSE, running |-> TRUE,
          healthy |-> IsTaskHealthy(c, w, t, o).ret,
          raised |-> IsTaskHealthy(c, w, t, o).raised]

\* a variant of PrevHealth that never finds the record
PrevHealthDefault(health, t) == TRUE

\* tmux_manager.py 632: self.task_health.get(task_name, {}).get("healthy", True)
PrevHealth(health, t) ==
    IF t \in DOMAIN health THEN health[t].healthy ELSE TRUE

\* how a Health Record reads: "none" when the task has none
RecordOf(health, t) ==
    IF t \notin DOMAIN health THEN "none"
    ELSE IF health[t].healthy THEN "healthy" ELSE "unhealthy"

\* a variant of CheckTaskHealth that keeps the record a task already has
CheckTaskHealthKeepsRecord(c, w, health, t, o) ==
    health @@ (t :> [healthy |-> IsTaskHealthy(c, w, t, o).ret,
                     status |-> GetTaskStatus(c, w, t)])

\* tmux_manager.py 612-623: check_task_health; the new task_health
CheckTaskHealth(c, w, health, t, o) ==
    (t :> [healthy |-> IsTaskHealthy(c, w, t, o).ret,
           status |-> GetTaskStatus(c, w, t)])
    @@ health

\* tmux_manager.py 631-635: one iteration of the loop, for task t whose health
\* command does o; st = [w, health, eval, restarted]
AutoRestartStep(c, sh, t, st, o) ==
    LET health == CheckTaskHealth(c, st.w, st.health, t, o)
        is_healthy == IsTaskHealthy(c, st.w, t, o).ret
        st1 == [st EXCEPT !.health = health,
                          !.eval = (t :> IF is_healthy THEN "healthy" ELSE "unhealthy")
                                   @@ @]
    IN  IF ~is_healthy /\ PrevHealth(st1.health, t)
        THEN [st1 EXCEPT !.w = RestartTaskOp(c, st1.w, sh, t),
                         !.restarted = @ \cup {t}]
        ELSE st1

\* tmux_manager.py 630-635: the loop over self.config.tasks, from the k-th task on
RECURSIVE AutoRestartLoop(_, _, _, _, _)
AutoRestartLoop(c, sh, k, st, o) ==
    IF k > Len(c.keys) THEN st
    ELSE AutoRestartLoop(c, sh, k + 1,
                         AutoRestartStep(c, sh, c.keys[k], st, o[c.keys[k]]), o)

\* the server and the hook runner as an operation finds them; handle is
\* TmuxManager.session, the session object the manager holds (TRUE) or None (FALSE)
World == [session |-> session, windows |-> windows, trace |-> <<>>, handle |-> session]

\* what the health commands of the tasks that have one do, for one operation
ProbeResults(c) ==
    {o \in [TaskKeys(c) -> ProbeOutcomes] :
        \A t \in TaskKeys(c) : c.tasks[t].health_check \in {"none", ""} => o[t] = "exit0"}

\* start <task>
StartTask ==
    /\ \E t \in TaskKeys(cfg) \cup {GhostTask} :
          LET w == StartTaskOp(cfg, World, shell, t)
          IN  /\ session' = w.session
              /\ windows' = w.windows
              /\ trace' = w.trace
              /\ lastOp' = [op |-> "start_task", task |-> t,
                            had_window |-> session /\ HasWindow(windows, t),
                            after |-> IF /\ lastOp.op \in {"stop_task", "kill_task"}
                                         /\ lastOp.task = t
                                         /\ lastOp.had_window
                                      THEN lastOp.op ELSE "other"]
    /\ UNCHANGED <<cfg, shell, task_health>>
    /\ UNCHANGED <<graphVars, waitVars, logVars, daemonVars>>

\* stop <task>
StopTask ==
    /\ \E t \in TaskKeys(cfg) \cup {GhostTask} :
          LET w == StopTaskOp(cfg, World, t)
          IN  /\ session' = w.session
              /\ windows' = w.windows
              /\ trace' = w.trace
              /\ lastOp' = [op |-> "stop_task", task |-> t,
                            had_window |-> session /\ HasWindow(windows, t),
                            before_session |-> session, before_windows |-> windows]
    /\ UNCHANGED <<cfg, shell, task_health>>
    /\ UNCHANGED <<graphVars, waitVars, logVars, daemonVars>>

\* restart <task>
RestartTask ==
    /\ \E t \in TaskKeys(cfg) \cup {GhostTask} :
          LET w == RestartTaskOp(cfg, World, shell, t)
          IN  /\ session' = w.session
              /\ windows' = w.windows
              /\ trace' = w.trace
              /\ lastOp' = [op |-> "restart_task", task |-> t]
    /\ UNCHANGED <<cfg, shell, task_health>>
    /\ UNCHANGED <<graphVars, waitVars, logVars, daemonVars>>

\* kill <name>: the name is not looked up in the config, so the name of the
\* session's first window is one of the names that can be given
KillTask ==
    /\ \E t \in TaskKeys(cfg) \cup {GhostTask, shell} :
          LET w == KillTaskOp(World, t)
          IN  /\ session' = w.session
              /\ windows' = w.windows
              /\ trace' = w.trace
              /\ lastOp' = [op |-> "kill_task", task |-> t,
                            had_window |-> session /\ HasWindow(windows, t)]
    /\ UNCHANGED <<cfg, shell, task_health>>
    /\ UNCHANGED <<graphVars, waitVars, logVars, daemonVars>>

\* inspect <task>
InspectTask ==
    /\ \E t \in TaskKeys(cfg) \cup {GhostTask}, o \in ProbeOutcomes :
          /\ (t \in TaskKeys(cfg) /\ cfg.tasks[t].health_check = "curl") \/ o = "exit0"
          /\ LET r == InspectTaskOp(cfg, World, t, o)
             IN  lastOp' = [op |-> "inspect_task", task |-> t, error |-> r.error,
                            running |-> r.running, healthy |-> r.healthy,
                            raised |-> r.raised]
    /\ trace' = <<>>
    /\ UNCHANGED <<cfg, shell, session, windows, task_health>>
    /\ UNCHANGED <<graphVars, waitVars, logVars, daemonVars>>

\* is_task_healthy(task), as inspect and the status request call it
ProbeHealth ==
    /\ \E t \in TaskKeys(cfg) \cup {GhostTask}, o \in ProbeOutcomes :
          /\ (t \in TaskKeys(cfg) /\ cfg.tasks[t].health_check = "curl") \/ o = "exit0"
          /\ LET r == IsTaskHealthy(cfg, World, t, o)
             IN  lastOp' = [op |-> "is_task_healthy", task |-> t, outcome |-> o,
                            ret |-> r.ret, raised |-> r.raised, pane_read |-> r.pane_read]
    /\ trace' = <<>>
    /\ UNCHANGED <<cfg, shell, session, windows, task_health>>
    /\ UNCHANGED <<graphVars, waitVars, logVars, daemonVars>>

\* tmux_manager.py 625-635: auto_restart_unhealthy_tasks, one cycle of the health loop
AutoRestart ==
    /\ \E o \in ProbeResults(cfg) :
          LET st0 == [w |-> World, health |-> task_health,
                      eval |-> [t \in TaskKeys(cfg) |-> "none"], restarted |-> {}]
              st == IF ~session THEN st0
                    ELSE AutoRestartLoop(cfg, shell, 1, st0, o)
          IN  /\ session' = st.w.session
              /\ windows' = st.w.windows
              /\ trace' = st.w.trace
              /\ task_health' = st.health
              /\ lastOp' = [op |-> "auto_restart", session |-> session,
                            before |-> [t \in TaskKeys(cfg) |-> RecordOf(task_health, t)],
                            eval |-> st.eval, restarted |-> st.restarted]
    /\ UNCHANGED <<cfg, shell>>
    /\ UNCHANGED <<graphVars, waitVars, logVars, daemonVars>>

\* hooks.py 6-36: runHook on no command, or on a command and what it does
RunHookCall ==
    /\ \E cmd \in {"none", "cmd"}, o \in HookOutcomes :
          /\ cmd = "none" => o = "exit0"
          /\ LET r == RunHookOn(cmd, o)
             IN  lastOp' = [op |-> "runHook", cmd |-> cmd, outcome |-> o, ret |-> r.ret,
                            executed |-> r.executed, raised |-> r.raised]
    /\ trace' = <<>>
    /\ UNCHANGED <<cfg, shell, session, windows, task_health>>
    /\ UNCHANGED <<graphVars, waitVars, logVars, daemonVars>>

\* the process in a task's pane starts, ends or hands the pane back to the shell
PaneChange ==
    /\ session
    /\ \E i \in 1..Len(windows), cmd \in NonShellCmds \cup {shell} :
          /\ windows[i].name \in TaskKeys(cfg)
          /\ windows[i].cmd # cmd
          /\ windows' = [windows EXCEPT ![i].cmd = cmd]
    /\ lastOp' = [op |-> "pane_change"]
    /\ trace' = <<>>
    /\ UNCHANGED <<cfg, shell, session, task_health>>
    /\ UNCHANGED <<graphVars, waitVars, logVars, daemonVars>>

(***************************************************************************)
(* Lifecycle Orchestrator: the group operation start_all                   *)
(***************************************************************************)

\* the tasks of the configs start_all runs on, in insertion order
GroupKeys == <<"db", "api", "web">>

\* models.py 34-54: the configs start_all runs on. db has a health-check command
\* and no dependency, api depends on db, web on db or on api; the auto_start flags,
\* the hooks and api's health check vary.
GroupConfigs ==
    {[keys |-> GroupKeys,
      auto_start |-> g,
      hooks |-> HookConfig(h[1]),
      tasks |-> [db  |-> [health_check |-> "curl", depends_on |-> <<>>,
                          hooks |-> HookConfig(h[2]), auto_start |-> a["db"],
                          health_retries |-> 3, health_interval |-> 2],
                 api |-> [health_check |-> hc, depends_on |-> <<"db">>,
                          hooks |-> HookConfig(h[2]), auto_start |-> a["api"],
                          health_retries |-> 2, health_interval |-> 5],
                 web |-> [health_check |-> "none", depends_on |-> wd,
                          hooks |-> HookConfig(h[2]), auto_start |-> a["web"],
                          health_retries |-> 1, health_interval |-> 1]]]
        : g \in BOOLEAN, h \in HookChoices, a \in [Range(GroupKeys) -> BOOLEAN],
          hc \in {"none", "curl"}, wd \in {<<"db">>, <<"api">>}}

\* the graph _toposort_tasks reads: self.config.tasks[name].depends_on
GraphOf(c) == [keys |-> c.keys, deps |-> [t \in TaskKeys(c) |-> c.tasks[t].depends_on]]

\* a variant of AutoTasks that takes every task
AutoTasksAll(c) == c.keys

\* tmux_manager.py 271: auto_tasks, in the insertion order of self.config.tasks
AutoTasks(c) == SelectSeq(c.keys, LAMBDA t : c.tasks[t].auto_start)

\* the (task, dependency) pairs of a config
DepPairs(c) == {p \in TaskKeys(c) \X TaskKeys(c) : p[2] \in Range(c.tasks[p[1]].depends_on)}

\* a variant of DepWaitTimeout that reads the waiting task's settings
DepWaitTimeoutOfTask(c, t, dep) == c.tasks[t].health_retries * c.tasks[t].health_interval

\* tmux_manager.py 295: timeout = dep_cfg.health_retries * dep_cfg.health_interval
DepWaitTimeout(c, t, dep) == c.tasks[dep].health_retries * c.tasks[dep].health_interval

\* a variant of WaitForHealthy in which a dependency without a window can be
\* found healthy whatever its health check
WaitForHealthyObserved(c, w, dep, b) == b

\* tmux_manager.py 296: what _wait_for_healthy(dep, timeout) returns. b is what the
\* polls observe of the health command, or of the pane of a dependency that has a
\* window; a dependency with neither a health command nor a window is never healthy.
WaitForHealthy(c, w, dep, b) ==
    IF c.tasks[dep].health_check \in {"none", ""} /\ ~HasWindow(w.windows, dep)
    THEN FALSE
    ELSE b

\* tmux_manager.py 292-299: the waits of task t, from its j-th depends_on entry on
RECURSIVE DepWaits(_, _, _, _, _)
DepWaits(c, t, j, w, wo) ==
    LET ds == c.tasks[t].depends_on
    IN  IF j > Len(ds) THEN [w |-> w, skip |-> FALSE]
        ELSE IF ~c.tasks[ds[j]].auto_start THEN DepWaits(c, t, j + 1, w, wo)
        ELSE LET ok == WaitForHealthy(c, w, ds[j], wo[<<t, ds[j]>>])
                 w1 == [w EXCEPT !.trace =
                            Append(@, <<"wait", t, ds[j],
                                        ToString(DepWaitTimeout(c, t, ds[j])),
                                        IF ok THEN "healthy" ELSE "timeout">>)]
             IN  IF ok THEN DepWaits(c, t, j + 1, w1, wo)
                 ELSE [w |-> w1, skip |-> TRUE]

\* a variant of GlobalStartGate that goes on after a failed hook
GlobalStartGateOpen(ok) == TRUE

\* tmux_manager.py 280-281: if not runHook(self.config.hooks.before_start): return
GlobalStartGate(ok) == ok

\* a variant of AfterSkip that leaves the loop
AfterSkipLeave(order, k) == Len(order) + 1

\* tmux_manager.py 300-301: if skip: continue
AfterSkip(order, k) == k + 1

\* tmux_manager.py 287-318: the loop over sorted_names, from the k-th name on;
\* st = [w, first]
RECURSIVE StartAllLoop(_, _, _, _, _, _)
StartAllLoop(c, sh, order, k, st, wo) ==
    IF k > Len(order) THEN st
    ELSE LET t == order[k]
             d == DepWaits(c, t, 1, st.w, wo)
             w1 == WithHook(d.w, c.tasks[t].hooks["before_start"], "task", "before_start", t)
             reuse == st.first /\ w1.windows # <<>>
             w2 == IF reuse THEN ReuseDefaultWindow(w1, t)
                   ELSE SendCommandToWindow(w1, sh, t)
             w3 == WithHook(w2, c.tasks[t].hooks["after_start"], "task", "after_start", t)
         IN  IF d.skip
             THEN StartAllLoop(c, sh, order, AfterSkip(order, k),
                               [st EXCEPT !.w = d.w], wo)
             ELSE IF ~AfterStartGate(RunHook(c.tasks[t].hooks["after_start"]))
             THEN [w |-> w3, first |-> st.first /\ ~reuse]
             ELSE StartAllLoop(c, sh, order, k + 1,
                               [w |-> w3, first |-> st.first /\ ~reuse], wo)

\* a variant of RefreshSession that keeps the handle the manager holds
RefreshSessionStale(w) == w

\* tmux_manager.py 43-48: _refresh_session reads the handle from the server again
RefreshSession(w) == [w EXCEPT !.handle = w.session]

\* a variant of SessionExists that never finds a session
SessionExistsNever(w) == FALSE

\* tmux_manager.py 50-53: session_exists
SessionExists(w) == RefreshSession(w).handle

\* a variant of NewSession that creates nothing
NewSessionNone(w, sh) == w

\* tmux_manager.py 267, 283: self.server.new_session(...): the new session has one
\* window, which runs the default shell and is named after it
NewSession(w, sh) ==
    [w EXCEPT !.session = TRUE,
              !.windows = << [name |-> sh, cmd |-> sh] >>,
              !.trace = Append(@, <<"new_session">>)]

\* tmux_manager.py 259-322: start_all; wo is what each dependency wait observes
StartAllOp(c, w0, sh, wo) ==
    IF SessionExists(w0) THEN w0
    ELSE IF ~c.auto_start THEN NewSession(w0, sh)
    ELSE IF AutoTasks(c) = <<>> THEN w0
    ELSE LET sorted == ToposortTasks(GraphOf(c), AutoTasks(c))
             gb == c.hooks["before_start"]
             w1 == WithHook(w0, gb, "global", "before_start", "")
             w2 == NewSession(w1, sh)
             st == StartAllLoop(c, sh, sorted.order, 1, [w |-> w2, first |-> TRUE], wo)
         IN  IF ~sorted.ok THEN [w0 EXCEPT !.trace = Append(@, <<"raise", "ValueError">>)]
             ELSE IF ~GlobalStartGate(RunHook(gb)) THEN w1
             ELSE WithHook(st.w, c.hooks["after_start"], "global", "after_start", "")

\* start (all tasks)
StartAll ==
    /\ \E wo \in [DepPairs(cfg) -> BOOLEAN] :
          LET w == StartAllOp(cfg, World, shell, wo)
          IN  /\ session' = w.session
              /\ windows' = w.windows
              /\ trace' = w.trace
    /\ lastOp' = [op |-> "start_all", had_session |-> session,
                  before_windows |-> windows]
    /\ UNCHANGED <<cfg, shell, task_health>>
    /\ UNCHANGED <<graphVars, waitVars, logVars, daemonVars>>

\* a variant of KillSession that leaves the session alone
KillSessionSkipped(w) == w

\* tmux_manager.py 344: sess.kill()
KillSession(w) ==
    [w EXCEPT !.session = FALSE, !.windows = <<>>,
              !.trace = Append(@, <<"kill_session">>)]

\* tmux_manager.py 335-342: the loop over self.config.tasks, from the k-th task on
RECURSIVE StopAllLoop(_, _, _)
StopAllLoop(c, k, w) ==
    IF k > Len(c.keys) THEN w
    ELSE LET t == c.keys[k]
             w1 == WithHook(w, c.tasks[t].hooks["before_stop"], "task", "before_stop", t)
             w2 == SendInterrupt(w1, t)
             w3 == WithHook(w2, c.tasks[t].hooks["after_stop"], "task", "after_stop", t)
         IN  IF HasWindow(w.windows, t) THEN StopAllLoop(c, k + 1, w3)
             ELSE StopAllLoop(c, k + 1, w)

\* tmux_manager.py 324-348: stop_all
StopAllOp(c, w0) ==
    IF ~SessionExists(w0) THEN w0
    ELSE LET w1 == WithHook(w0, c.hooks["before_stop"], "global", "before_stop", "")
             w2 == StopAllLoop(c, 1, w1)
             w3 == KillSession(w2)
         IN  WithHook(w3, c.hooks["after_stop"], "global", "after_stop", "")

\* tmux_manager.py 350-354: restart_all
RestartAllOp(c, w0, sh, wo) ==
    StartAllOp(c, RefreshSession(StopAllOp(c, w0)), sh, wo)

\* stop (all tasks)
StopAll ==
    /\ LET w == StopAllOp(cfg, World)
       IN  /\ session' = w.session
           /\ windows' = w.windows
           /\ trace' = w.trace
    /\ lastOp' = [op |-> "stop_all", had_session |-> session, before_windows |-> windows]
    /\ UNCHANGED <<cfg, shell, task_health>>
    /\ UNCHANGED <<graphVars, waitVars, logVars, daemonVars>>

\* restart (all tasks)
RestartAll ==
    /\ \E wo \in [DepPairs(cfg) -> BOOLEAN] :
          LET w == RestartAllOp(cfg, World, shell, wo)
          IN  /\ session' = w.session
              /\ windows' = w.windows
              /\ trace' = w.trace
    /\ lastOp' = [op |-> "restart_all", had_session |-> session]
    /\ UNCHANGED <<cfg, shell, task_health>>
    /\ UNCHANGED <<graphVars, waitVars, logVars, daemonVars>>

(***************************************************************************)
(* The daemon (daemon.py): the config watcher runs in the thread of the    *)
(* watchdog observer, the health loop and the API requests run on the      *)
(* event loop of the main thread. A thread switch can fall between any two *)
(* statements of the watcher; the steps below are the watcher's statements *)
(* and, on the event loop, the start, the per-task iterations and the end  *)
(* of a status request or a health cycle.                                  *)
(***************************************************************************)

\* a task of the graphs below (the hooks are all absent)
DaemonTask(cmd, hc) ==
    [command |-> cmd, health_check |-> hc, hooks |-> HookConfig("none")]

\* the Task Graphs taskmux.toml holds over time: an edit changes the commands
\* and health checks, removes api and adds web; the session name stays
DaemonGraphs ==
    {[name |-> "dev", keys |-> <<"db", "api">>, hooks |-> HookConfig("none"),
      tasks |-> [db |-> DaemonTask("pg14", "curl"), api |-> DaemonTask("serve", "none")]],
     [name |-> "dev", keys |-> <<"db", "web">>, hooks |-> HookConfig("none"),
      tasks |-> [db |-> DaemonTask("pg16", "none"), web |-> DaemonTask("vite", "curl")]]}

\* the number of config changes the watcher handles
MaxReloads == 2

NoObservation == [kind |-> "none", split |-> FALSE, tasks |-> <<>>]

IdleReader == [pc |-> "idle", iter |-> <<>>, out |-> <<>>, split |-> FALSE]

\* daemon.py 35: self.taskmux_cli.config = loadConfig()
OnModifiedLoad ==
    /\ watcher = "idle"
    /\ reloads < MaxReloads
    /\ \E g \in DaemonGraphs : cliConfig' = g
    /\ watcher' = "loaded"
    /\ reloads' = reloads + 1
    /\ UNCHANGED <<reader, observed, threads>>
    /\ UNCHANGED <<graphVars, waitVars, logVars, orchVars>>

\* daemon.py 36: self.taskmux_cli.tmux.config = self.taskmux_cli.config
OnModifiedAssign ==
    /\ watcher = "loaded"
    /\ cfg' = cliConfig
    /\ watcher' = "assigned"
    /\ UNCHANGED <<cliConfig, reloads, reader, observed, threads>>
    /\ UNCHANGED <<shell, session, windows, task_health, lastOp, trace>>
    /\ UNCHANGED <<graphVars, waitVars, logVars>>

\* cli.py 37-45: the loop of handle_config_reload over self.config.tasks, from
\* the k-th task on; cur is the window list taken before the loop
RECURSIVE HandleConfigReloadLoop(_, _, _, _, _, _)
HandleConfigReloadLoop(cc, c, sh, cur, k, w) ==
    IF k > Len(cc.keys) THEN w
    ELSE LET t == cc.keys[k]
             w1 == IF t \in cur \/ SessionExists(w)
                   THEN RestartTaskOp(c, w, sh, t)
                   ELSE w
         IN  HandleConfigReloadLoop(cc, c, sh, cur, k + 1, w1)

\* tmux_manager.py 60-67: list_windows
ListWindows(w) ==
    IF ~SessionExists(w) THEN {}
    ELSE {w.windows[i].name : i \in 1..Len(w.windows)}

\* daemon.py 38-39, cli.py 33-45: handle_config_reload, in the watcher's thread
HandleConfigReload ==
    /\ watcher = "assigned"
    /\ LET w == HandleConfigReloadLoop(cliConfig, cfg, shell, ListWindows(World), 1, World)
       IN  /\ session' = w.session
           /\ windows' = w.windows
           /\ trace' = w.trace
    /\ watcher' = "idle"
    /\ lastOp' = [op |-> "config_reload"]
    /\ UNCHANGED <<cliConfig, reloads, reader, observed, threads>>
    /\ UNCHANGED <<cfg, shell, task_health>>
    /\ UNCHANGED <<graphVars, waitVars, logVars>>

\* daemon.py 206-214: _get_full_status up to the iterator of self.cli.config.tasks
StatusBegin ==
    /\ reader.pc = "idle"
    /\ reader' = [pc |-> "status", iter |-> cliConfig.keys, out |-> <<>>,
                  split |-> cliConfig # cfg]
    /\ UNCHANGED <<cliConfig, watcher, reloads, observed, threads>>
    /\ UNCHANGED <<graphVars, waitVars, logVars, orchVars>>

\* tmux_manager.py 102-122: get_task_status with the command field
FullTaskStatus(c, w, t, o) ==
    LET running == GetTaskStatus(c, w, t).running
    IN  [command |-> IF t \in TaskKeys(c) THEN c.tasks[t].command ELSE "",
         running |-> running,
         healthy |-> running /\ IsTaskHealthy(c, w, t, o).ret]

\* daemon.py 214-215: one iteration, self.cli.tmux.get_task_status(task_name)
StatusTask ==
    /\ reader.pc = "status"
    /\ reader.iter # <<>>
    /\ \E o \in {"exit0", "exit1"} :
          LET t == Head(reader.iter)
          IN  /\ (/\ t \in TaskKeys(cfg)
                  /\ cfg.tasks[t].health_check = "curl"
                  /\ HasWindow(windows, t)) \/ o = "exit0"
              /\ reader' = [reader EXCEPT
                               !.iter = Tail(@),
                               !.out = (t :> FullTaskStatus(cfg, World, t, o)) @@ @,
                               !.split = @ \/ cliConfig # cfg]
    /\ UNCHANGED <<cliConfig, watcher, reloads, observed, threads>>
    /\ UNCHANGED <<graphVars, waitVars, logVars, orchVars>>

\* daemon.py 217-223: the status is returned
StatusEnd ==
    /\ reader.pc = "status"
    /\ reader.iter = <<>>
    /\ observed' = [kind |-> "status", split |-> reader.split \/ cliConfig # cfg,
                    tasks |-> [t \in DOMAIN reader.out |-> reader.out[t].command]]
    /\ reader' = IdleReader
    /\ UNCHANGED <<cliConfig, watcher, reloads, threads>>
    /\ UNCHANGED <<graphVars, waitVars, logVars, orchVars>>

\* daemon.py 130-131, tmux_manager.py 627-630: a health cycle up to the iterator
\* of self.config.tasks
HealthBegin ==
    /\ reader.pc = "idle"
    /\ SessionExists(World)
    /\ reader' = [pc |-> "health", iter |-> cfg.keys, out |-> <<>>,
                  split |-> cliConfig # cfg]
    /\ UNCHANGED <<cliConfig, watcher, reloads, observed, threads>>
    /\ UNCHANGED <<graphVars, waitVars, logVars, orchVars>>

\* tmux_manager.py 84-88: the health check is_task_healthy finds for the task
HealthCheckOf(c, t) ==
    IF t \in TaskKeys(c) THEN c.tasks[t].health_check ELSE "absent"

\* tmux_manager.py 631-635: one iteration of auto_restart_unhealthy_tasks
HealthTask ==
    /\ reader.pc = "health"
    /\ reader.iter # <<>>
    /\ \E o \in {"exit0", "exit1"} :
          LET t == Head(reader.iter)
              st0 == [w |-> World, health |-> task_health, eval |-> <<>>,
                      restarted |-> {}]
              st == AutoRestartStep(cfg, shell, t, st0, o)
          IN  /\ HealthCheckOf(cfg, t) = "curl" \/ o = "exit0"
              /\ session' = st.w.session
              /\ windows' = st.w.windows
              /\ trace' = st.w.trace
              /\ task_health' = st.health
              /\ reader' = [reader EXCEPT
                               !.iter = Tail(@),
                               !.out = (t :> [command |-> HealthCheckOf(cfg, t),
                                              healthy |-> st.eval[t] = "healthy"]) @@ @,
                               !.split = @ \/ cliConfig # cfg]
    /\ UNCHANGED <<cliConfig, watcher, reloads, observed, threads>>
    /\ UNCHANGED <<cfg, shell, lastOp>>
    /\ UNCHANGED <<graphVars, waitVars, logVars>>

\* tmux_manager.py 630: the loop of the cycle ends
HealthEnd ==
    /\ reader.pc = "health"
    /\ reader.iter = <<>>
    /\ observed' = [kind |-> "health", split |-> reader.split,
                    tasks |-> [t \in DOMAIN reader.out |-> reader.out[t].command]]
    /\ reader' = IdleReader
    /\ UNCHANGED <<cliConfig, watcher, reloads, threads>>
    /\ UNCHANGED <<graphVars, waitVars, logVars, orchVars>>

(***************************************************************************)
(* Concurrent restarts in the daemon: restart_task runs in the thread of   *)
(* the config watcher (handle_config_reload) and on the event loop (an API *)
(* restart request); its hooks, its tmux commands and its sleep release    *)
(* the interpreter lock. A restart is taken in three steps: the guards and *)
(* the window lookup, the stop half, the start half.                       *)
(***************************************************************************)

RestartThreads == {"main", "watcher"}

\* the API restart requests of one run
MaxRequests == 1

IdleThread == [pc |-> "idle", task |-> "", window |-> FALSE, queue |-> <<>>,
               cur |-> {}, n |-> 0]

\* where restart_task returns to: the loop of handle_config_reload, or the event loop
ReturnPc(th) == IF th = "watcher" THEN "reload" ELSE "idle"

\* what a restart does is recorded as <<thread, number of the restart, task, step>>
RestartEvent(th, step) == <<th, ToString(threads[th].n), threads[th].task, step>>

RestartHookEvents(th, cmd, kind) ==
    IF cmd = "none" THEN <<>> ELSE <<RestartEvent(th, kind)>>

\* daemon.py 176-180: the API request {"command": "restart", "params": {"task": t}}
ApiRestart ==
    /\ threads["main"].pc = "idle"
    /\ threads["main"].n < MaxRequests
    /\ \E t \in TaskKeys(cfg) :
          threads' = [threads EXCEPT !["main"].pc = "restart", !["main"].task = t,
                                     !["main"].n = @ + 1]
    /\ UNCHANGED <<cliConfig, watcher, reloads, reader, observed>>
    /\ UNCHANGED <<graphVars, waitVars, logVars, orchVars>>

\* daemon.py 32-39, cli.py 33-35: taskmux.toml is saved with the tasks it had;
\* on_modified loads it and handle_config_reload takes the window list
ConfigReload ==
    /\ threads["watcher"].pc = "idle"
    /\ reloads < MaxReloads
    /\ reloads' = reloads + 1
    /\ threads' = [threads EXCEPT !["watcher"].pc = "reload",
                                  !["watcher"].queue = cliConfig.keys,
                                  !["watcher"].cur = ListWindows(World)]
    /\ UNCHANGED <<cliConfig, watcher, reader, observed>>
    /\ UNCHANGED <<graphVars, waitVars, logVars, orchVars>>

\* cli.py 37-44: one iteration of the loop of handle_config_reload, up to the call
\* of restart_task
ReloadNext ==
    /\ threads["watcher"].pc = "reload"
    /\ LET q == threads["watcher"].queue
       IN  threads' =
               IF q = <<>> THEN [threads EXCEPT !["watcher"].pc = "idle"]
               ELSE IF Head(q) \in threads["watcher"].cur \/ SessionExists(World)
               THEN [threads EXCEPT !["watcher"].pc = "restart",
                                    !["watcher"].task = Head(q),
                                    !["watcher"].queue = Tail(q),
                                    !["watcher"].n = @ + 1]
               ELSE [threads EXCEPT !["watcher"].queue = Tail(q)]
    /\ UNCHANGED <<cliConfig, watcher, reloads, reader, observed>>
    /\ UNCHANGED <<graphVars, waitVars, logVars, orchVars>>

\* tmux_manager.py 362-374: the guards of restart_task and the window lookup
RestartLookup ==
    /\ \E th \in RestartThreads :
          /\ threads[th].pc = "restart"
          /\ LET t == threads[th].task
                 found == HasWindow(windows, t)
             IN  threads' =
                    IF ~SessionExists(World) \/ t \notin TaskKeys(cfg)
                    THEN [threads EXCEPT ![th].pc = ReturnPc(th)]
                    ELSE [threads EXCEPT ![th].pc = IF found THEN "stop" ELSE "start",
                                         ![th].window = found]
    /\ UNCHANGED <<cliConfig, watcher, reloads, reader, observed>>
    /\ UNCHANGED <<graphVars, waitVars, logVars, orchVars>>

\* tmux_manager.py 375-381: the before_stop hook, the interrupt, the after_stop hook
RestartStop ==
    /\ \E th \in RestartThreads :
          /\ threads[th].pc = "stop"
          /\ LET h == cfg.tasks[threads[th].task].hooks
             IN  trace' = trace \o RestartHookEvents(th, h["before_stop"], "before_stop")
                                \o <<RestartEvent(th, "C-c")>>
                                \o RestartHookEvents(th, h["after_stop"], "after_stop")
          /\ threads' = [threads EXCEPT ![th].pc = "start"]
    /\ UNCHANGED <<cliConfig, watcher, reloads, reader, observed>>
    /\ UNCHANGED <<cfg, shell, session, windows, task_health, lastOp>>
    /\ UNCHANGED <<graphVars, waitVars, logVars>>

\* tmux_manager.py 383-393: the before_start hook, the command (in the window
\* found, or in a new window when none was found), the after_start hook
RestartStart ==
    /\ \E th \in RestartThreads :
          /\ threads[th].pc = "start"
          /\ LET t == threads[th].task
                 h == cfg.tasks[t].hooks
             IN  /\ trace' = trace \o RestartHookEvents(th, h["before_start"], "before_start")
                                   \o (IF threads[th].window THEN <<>>
                                       ELSE <<RestartEvent(th, "new_window")>>)
                                   \o <<RestartEvent(th, "command")>>
                                   \o RestartHookEvents(th, h["after_start"], "after_start")
                 /\ windows' = IF threads[th].window THEN windows
                               ELSE Append(windows, [name |-> t, cmd |-> shell])
          /\ threads' = [threads EXCEPT ![th].pc = ReturnPc(th)]
    /\ UNCHANGED <<cliConfig, watcher, reloads, reader, observed>>
    /\ UNCHANGED <<cfg, shell, session, task_health, lastOp>>
    /\ UNCHANGED <<graphVars, waitVars, logVars>>

(***************************************************************************)
(* Specifications                                                          *)
(***************************************************************************)

\* construction of a TaskmuxConfig from a task collection, then one scheduling call
InitGraph ==
    /\ gpc = "new"
    /\ rawTasks \in TaskCollections
    /\ config = NoConfig
    /\ verr = NoError
    /\ topoIn = <<>>
    /\ topoOut = [ok |-> TRUE, order |-> <<>>]
    /\ wpc = "done" /\ wInterval = 0 /\ wRetries = 0 /\ wTimeout = 0
    /\ elapsed = 0 /\ probes = <<>> /\ sleeps = 0 /\ wret = FALSE
    /\ lpc = "new" /\ capture1 = <<>> /\ appended = <<>>
    /\ prevTail = <<>> /\ current = <<>> /\ newLines = <<>>
    /\ cfg = [keys |-> <<>>] /\ shell = "bash" /\ session = FALSE /\ windows = <<>>
    /\ task_health = <<>> /\ lastOp = [op |-> "none"] /\ trace = <<>>
    /\ cliConfig = cfg /\ watcher = "idle" /\ reloads = 0
    /\ reader = IdleReader /\ observed = NoObservation
    /\ state = [t \in {"db", "api"} |-> <<>>] /\ polled = "" /\ polls = 0
    /\ grepOutput = <<>> /\ grepPattern = <<>> /\ grepContext = 0 /\ printed = <<>>
    /\ stored = [keys |-> <<>>, deps |-> <<>>] /\ lastEdit = [op |-> "none", n |-> 0]
    /\ threads = [th \in {"main", "watcher"} |->
                     [pc |-> "idle", task |-> "", window |-> FALSE, queue |-> <<>>,
                      cur |-> {}, n |-> 0]]

SpecGraph == InitGraph /\ [][Construct \/ Toposort]_vars

\* tmux_manager.py 168-170: one call of _wait_for_healthy, with the timeout
\* start_all derives (line 295) or another
InitWait ==
    /\ wpc = "test"
    /\ wInterval \in 0..MaxInterval
    /\ wRetries \in 0..MaxRetries
    /\ wTimeout \in {wRetries * wInterval} \cup (0..MaxTimeout)
    /\ elapsed = 0
    /\ probes = <<>>
    /\ sleeps = 0
    /\ wret = FALSE
    /\ gpc = "new" /\ rawTasks = [keys |-> <<>>, deps |-> <<>>] /\ config = NoConfig
    /\ verr = NoError /\ topoIn = <<>> /\ topoOut = [ok |-> TRUE, order |-> <<>>]
    /\ lpc = "new" /\ capture1 = <<>> /\ appended = <<>>
    /\ prevTail = <<>> /\ current = <<>> /\ newLines = <<>>
    /\ cfg = [keys |-> <<>>] /\ shell = "bash" /\ session = FALSE /\ windows = <<>>
    /\ task_health = <<>> /\ lastOp = [op |-> "none"] /\ trace = <<>>
    /\ cliConfig = cfg /\ watcher = "idle" /\ reloads = 0
    /\ reader = IdleReader /\ observed = NoObservation
    /\ state = [t \in {"db", "api"} |-> <<>>] /\ polled = "" /\ polls = 0
    /\ grepOutput = <<>> /\ grepPattern = <<>> /\ grepContext = 0 /\ printed = <<>>
    /\ stored = [keys |-> <<>>, deps |-> <<>>] /\ lastEdit = [op |-> "none", n |-> 0]
    /\ threads = [th \in {"main", "watcher"} |->
                     [pc |-> "idle", task |-> "", window |-> FALSE, queue |-> <<>>,
                      cur |-> {}, n |-> 0]]

SpecWait == InitWait /\ [][WaitProbe \/ WaitSleep \/ WaitFinal]_vars

\* one call of _find_new_lines
InitLog ==
    /\ lpc = "new"
    /\ capture1 \in Captures
    /\ appended \in SeqsUpTo(Lines, MaxNew)
    /\ prevTail = <<>>
    /\ current = <<>>
    /\ newLines = <<>>
    /\ gpc = "new" /\ rawTasks = [keys |-> <<>>, deps |-> <<>>] /\ config = NoConfig
    /\ verr = NoError /\ topoIn = <<>> /\ topoOut = [ok |-> TRUE, order |-> <<>>]
    /\ wpc = "done" /\ wInterval = 0 /\ wRetries = 0 /\ wTimeout = 0
    /\ elapsed = 0 /\ probes = <<>> /\ sleeps = 0 /\ wret = FALSE
    /\ cfg = [keys |-> <<>>] /\ shell = "bash" /\ session = FALSE /\ windows = <<>>
    /\ task_health = <<>> /\ lastOp = [op |-> "none"] /\ trace = <<>>
    /\ cliConfig = cfg /\ watcher = "idle" /\ reloads = 0
    /\ reader = IdleReader /\ observed = NoObservation
    /\ state = [t \in {"db", "api"} |-> <<>>] /\ polled = "" /\ polls = 0
    /\ grepOutput = <<>> /\ grepPattern = <<>> /\ grepContext = 0 /\ printed = <<>>
    /\ stored = [keys |-> <<>>, deps |-> <<>>] /\ lastEdit = [op |-> "none", n |-> 0]
    /\ threads = [th \in {"main", "watcher"} |->
                     [pc |-> "idle", task |-> "", window |-> FALSE, queue |-> <<>>,
                      cur |-> {}, n |-> 0]]

SpecLog == InitLog /\ [][RoundTrip \/ Diff]_vars

\* tmux_manager.py 460-461: logs -f, before the first poll (state = {})
InitFollow ==
    /\ lpc = "follow"
    /\ capture1 = <<>>
    /\ appended = <<>>
    /\ prevTail = <<>>
    /\ current = <<>>
    /\ newLines = <<>>
    /\ gpc = "new" /\ rawTasks = [keys |-> <<>>, deps |-> <<>>] /\ config = NoConfig
    /\ verr = NoError /\ topoIn = <<>> /\ topoOut = [ok |-> TRUE, order |-> <<>>]
    /\ wpc = "done" /\ wInterval = 0 /\ wRetries = 0 /\ wTimeout = 0
    /\ elapsed = 0 /\ probes = <<>> /\ sleeps = 0 /\ wret = FALSE
    /\ cfg = [keys |-> <<>>] /\ shell = "bash" /\ session = FALSE /\ windows = <<>>
    /\ task_health = <<>> /\ lastOp = [op |-> "none"] /\ trace = <<>>
    /\ cliConfig = cfg /\ watcher = "idle" /\ reloads = 0
    /\ reader = IdleReader /\ observed = NoObservation
    /\ state = [t \in {"db", "api"} |-> <<>>] /\ polled = "" /\ polls = 0
    /\ grepOutput = <<>> /\ grepPattern = <<>> /\ grepContext = 0 /\ printed = <<>>
    /\ stored = [keys |-> <<>>, deps |-> <<>>] /\ lastEdit = [op |-> "none", n |-> 0]
    /\ threads = [th \in {"main", "watcher"} |->
                     [pc |-> "idle", task |-> "", window |-> FALSE, queue |-> <<>>,
                      cur |-> {}, n |-> 0]]

SpecFollow == InitFollow /\ [][Poll]_vars

\* tmux_manager.py 535-537: a capture, a pattern and a context for static grep mode
InitGrep ==
    /\ lpc = "grep"
    /\ capture1 = <<>>
    /\ appended = <<>>
    /\ prevTail = <<>>
    /\ current = <<>>
    /\ newLines = <<>>
    /\ gpc = "new" /\ rawTasks = [keys |-> <<>>, deps |-> <<>>] /\ config = NoConfig
    /\ verr = NoError /\ topoIn = <<>> /\ topoOut = [ok |-> TRUE, order |-> <<>>]
    /\ wpc = "done" /\ wInterval = 0 /\ wRetries = 0 /\ wTimeout = 0
    /\ elapsed = 0 /\ probes = <<>> /\ sleeps = 0 /\ wret = FALSE
    /\ cfg = [keys |-> <<>>] /\ shell = "bash" /\ session = FALSE /\ windows = <<>>
    /\ task_health = <<>> /\ lastOp = [op |-> "none"] /\ trace = <<>>
    /\ cliConfig = cfg /\ watcher = "idle" /\ reloads = 0
    /\ reader = IdleReader /\ observed = NoObservation
    /\ state = [t \in {"db", "api"} |-> <<>>] /\ polled = "" /\ polls = 0
    /\ grepOutput \in SeqsUpTo(GrepLines, MaxGrepLen) /\ grepPattern \in GrepPatterns
    /\ grepContext \in 0..MaxContext /\ printed = <<>>
    /\ stored = [keys |-> <<>>, deps |-> <<>>] /\ lastEdit = [op |-> "none", n |-> 0]
    /\ threads = [th \in {"main", "watcher"} |->
                     [pc |-> "idle", task |-> "", window |-> FALSE, queue |-> <<>>,
                      cur |-> {}, n |-> 0]]

SpecGrep == InitGrep /\ [][Grep]_vars

\* config.py 26-30: no taskmux.toml yet
InitEdit ==
    /\ lpc = "new"
    /\ capture1 = <<>>
    /\ appended = <<>>
    /\ prevTail = <<>>
    /\ current = <<>>
    /\ newLines = <<>>
    /\ gpc = "new" /\ rawTasks = [keys |-> <<>>, deps |-> <<>>] /\ config = NoConfig
    /\ verr = NoError /\ topoIn = <<>> /\ topoOut = [ok |-> TRUE, order |-> <<>>]
    /\ wpc = "done" /\ wInterval = 0 /\ wRetries = 0 /\ wTimeout = 0
    /\ elapsed = 0 /\ probes = <<>> /\ sleeps = 0 /\ wret = FALSE
    /\ cfg = [keys |-> <<>>] /\ shell = "bash" /\ session = FALSE /\ windows = <<>>
    /\ task_health = <<>> /\ lastOp = [op |-> "none"] /\ trace = <<>>
    /\ cliConfig = cfg /\ watcher = "idle" /\ reloads = 0
    /\ reader = IdleReader /\ observed = NoObservation
    /\ state = [t \in {"db", "api"} |-> <<>>] /\ polled = "" /\ polls = 0
    /\ grepOutput = <<>> /\ grepPattern = <<>> /\ grepContext = 0 /\ printed = <<>>
    /\ stored = NoFile /\ lastEdit = [op |-> "none", n |-> 0]
    /\ threads = [th \in {"main", "watcher"} |->
                     [pc |-> "idle", task |-> "", window |-> FALSE, queue |-> <<>>,
                      cur |-> {}, n |-> 0]]

SpecEdit == InitEdit /\ [][AddTask \/ RemoveTask]_vars

\* tmux_manager.py 36-41: a TmuxManager on a server that has no session yet
Init ==
    /\ cfg \in OrchConfigs
    /\ shell \in {"bash", "zsh"}
    /\ session = FALSE
    /\ windows = <<>>
    /\ task_health = <<>>
    /\ lastOp = [op |-> "none"]
    /\ trace = <<>>
    /\ gpc = "new" /\ rawTasks = [keys |-> <<>>, deps |-> <<>>] /\ config = NoConfig
    /\ verr = NoError /\ topoIn = <<>> /\ topoOut = [ok |-> TRUE, order |-> <<>>]
    /\ wpc = "done" /\ wInterval = 0 /\ wRetries = 0 /\ wTimeout = 0
    /\ elapsed = 0 /\ probes = <<>> /\ sleeps = 0 /\ wret = FALSE
    /\ lpc = "new" /\ capture1 = <<>> /\ appended = <<>>
    /\ prevTail = <<>> /\ current = <<>> /\ newLines = <<>>
    /\ cliConfig = cfg /\ watcher = "idle" /\ reloads = 0
    /\ reader = IdleReader /\ observed = NoObservation
    /\ state = [t \in {"db", "api"} |-> <<>>] /\ polled = "" /\ polls = 0
    /\ grepOutput = <<>> /\ grepPattern = <<>> /\ grepContext = 0 /\ printed = <<>>
    /\ stored = [keys |-> <<>>, deps |-> <<>>] /\ lastEdit = [op |-> "none", n |-> 0]
    /\ threads = [th \in {"main", "watcher"} |->
                     [pc |-> "idle", task |-> "", window |-> FALSE, queue |-> <<>>,
                      cur |-> {}, n |-> 0]]

Next ==
    \/ StartTask \/ RestartTask \/ ProbeHealth \/ AutoRestart \/ PaneChange
    \/ RunHookCall \/ StopTask

Spec == Init /\ [][Next]_vars

\* the operations of the command line on a server whose panes stay as they are
SpecOps ==
    Init /\ [][\/ StartTask \/ StopTask \/ RestartTask \/ KillTask
                \/ InspectTask \/ ProbeHealth \/ StartAll \/ StopAll
                \/ RestartAll]_vars

\* tmux_manager.py 36-41: a TmuxManager for a group config, no session yet
InitGroup ==
    /\ cfg \in GroupConfigs
    /\ shell \in {"bash", "zsh"}
    /\ session = FALSE
    /\ windows = <<>>
    /\ task_health = <<>>
    /\ lastOp = [op |-> "none"]
    /\ trace = <<>>
    /\ gpc = "new" /\ rawTasks = [keys |-> <<>>, deps |-> <<>>] /\ config = NoConfig
    /\ verr = NoError /\ topoIn = <<>> /\ topoOut = [ok |-> TRUE, order |-> <<>>]
    /\ wpc = "done" /\ wInterval = 0 /\ wRetries = 0 /\ wTimeout = 0
    /\ elapsed = 0 /\ probes = <<>> /\ sleeps = 0 /\ wret = FALSE
    /\ lpc = "new" /\ capture1 = <<>> /\ appended = <<>>
    /\ prevTail = <<>> /\ current = <<>> /\ newLines = <<>>
    /\ cliConfig = cfg /\ watcher = "idle" /\ reloads = 0
    /\ reader = IdleReader /\ observed = NoObservation
    /\ state = [t \in {"db", "api"} |-> <<>>] /\ polled = "" /\ polls = 0
    /\ grepOutput = <<>> /\ grepPattern = <<>> /\ grepContext = 0 /\ printed = <<>>
    /\ stored = [keys |-> <<>>, deps |-> <<>>] /\ lastEdit = [op |-> "none", n |-> 0]
    /\ threads = [th \in {"main", "watcher"} |->
                     [pc |-> "idle", task |-> "", window |-> FALSE, queue |-> <<>>,
                      cur |-> {}, n |-> 0]]

SpecGroup == InitGroup /\ [][StartAll \/ StopAll \/ RestartAll]_vars

\* daemon.py 85-101: the daemon beside a session that start has made for the
\* config, every task running in its window
InitDaemon ==
    /\ cfg \in DaemonGraphs
    /\ shell = "bash"
    /\ session = TRUE
    /\ windows = [i \in 1..Len(cfg.keys) |-> [name |-> cfg.keys[i], cmd |-> "node"]]
    /\ task_health = <<>>
    /\ lastOp = [op |-> "none"]
    /\ trace = <<>>
    /\ gpc = "new" /\ rawTasks = [keys |-> <<>>, deps |-> <<>>] /\ config = NoConfig
    /\ verr = NoError /\ topoIn = <<>> /\ topoOut = [ok |-> TRUE, order |-> <<>>]
    /\ wpc = "done" /\ wInterval = 0 /\ wRetries = 0 /\ wTimeout = 0
    /\ elapsed = 0 /\ probes = <<>> /\ sleeps = 0 /\ wret = FALSE
    /\ lpc = "new" /\ capture1 = <<>> /\ appended = <<>>
    /\ prevTail = <<>> /\ current = <<>> /\ newLines = <<>>
    /\ cliConfig = cfg /\ watcher = "idle" /\ reloads = 0
    /\ reader = IdleReader /\ observed = NoObservation
    /\ state = [t \in {"db", "api"} |-> <<>>] /\ polled = "" /\ polls = 0
    /\ grepOutput = <<>> /\ grepPattern = <<>> /\ grepContext = 0 /\ printed = <<>>
    /\ stored = [keys |-> <<>>, deps |-> <<>>] /\ lastEdit = [op |-> "none", n |-> 0]
    /\ threads = [th \in {"main", "watcher"} |->
                     [pc |-> "idle", task |-> "", window |-> FALSE, queue |-> <<>>,
                      cur |-> {}, n |-> 0]]

SpecDaemon ==
    InitDaemon /\ [][\/ OnModifiedLoad \/ OnModifiedAssign \/ HandleConfigReload
                     \/ StatusBegin \/ StatusTask \/ StatusEnd
                     \/ HealthBegin \/ HealthTask \/ HealthEnd]_vars

\* daemon.py 85-101: the daemon beside a session in which the first tasks of the
\* config, or all, have their window
InitRestart ==
    /\ cfg \in OrchConfigs
    /\ shell = "bash"
    /\ session = TRUE
    /\ windows \in {[i \in 1..n |-> [name |-> cfg.keys[i], cmd |-> "node"]] :
                       n \in 1..Len(cfg.keys)}
    /\ task_health = <<>>
    /\ lastOp = [op |-> "none"]
    /\ trace = <<>>
    /\ gpc = "new" /\ rawTasks = [keys |-> <<>>, deps |-> <<>>] /\ config = NoConfig
    /\ verr = NoError /\ topoIn = <<>> /\ topoOut = [ok |-> TRUE, order |-> <<>>]
    /\ wpc = "done" /\ wInterval = 0 /\ wRetries = 0 /\ wTimeout = 0
    /\ elapsed = 0 /\ probes = <<>> /\ sleeps = 0 /\ wret = FALSE
    /\ lpc = "new" /\ capture1 = <<>> /\ appended = <<>>
    /\ prevTail = <<>> /\ current = <<>> /\ newLines = <<>>
    /\ cliConfig = cfg /\ watcher = "idle" /\ reloads = 0
    /\ reader = IdleReader /\ observed = NoObservation
    /\ state = [t \in {"db", "api"} |-> <<>>] /\ polled = "" /\ polls = 0
    /\ grepOutput = <<>> /\ grepPattern = <<>> /\ grepContext = 0 /\ printed = <<>>
    /\ stored = [keys |-> <<>>, deps |-> <<>>] /\ lastEdit = [op |-> "none", n |-> 0]
    /\ threads = [th \in {"main", "watcher"} |->
                     [pc |-> "idle", task |-> "", window |-> FALSE, queue |-> <<>>,
                      cur |-> {}, n |-> 0]]

SpecRestart ==
    InitRestart /\ [][\/ ApiRestart \/ ConfigReload \/ ReloadNext
                      \/ RestartLookup \/ RestartStop \/ RestartStart]_vars


(***************************************************************************)
(* Properties of the task graph and the scheduler (SpecGraph)              *)
(***************************************************************************)

\* tk has a depends_on entry from key x to key y
DependsOnKey(tk, x, y) ==
    x \in Range(tk.keys) /\ y \in Range(tk.keys) /\ y \in Range(tk.deps[x])

RECURSIVE ReachableFrom(_, _)
ReachableFrom(tk, S) ==
    LET T == S \cup {y \in Range(tk.keys) : \E x \in S : DependsOnKey(tk, x, y)}
    IN  IF T = S THEN S ELSE ReachableFrom(tk, T)

\* the depends_on edges of tk contain a directed cycle (a self-loop included)
HasCycle(tk) ==
    \E n \in Range(tk.keys) :
        n \in ReachableFrom(tk, {y \in Range(tk.keys) : DependsOnKey(tk, n, y)})

\* some depends_on entry of tk is not a key of tk
HasUnknownRef(tk) ==
    \E t \in Range(tk.keys) : \E d \in Range(tk.deps[t]) : d \notin Range(tk.keys)

\* C1: on a validated task graph, _toposort_tasks on a duplicate-free list of task
\* names raises no cycle error and returns an order in which every listed task
\* comes strictly after each of its depends_on entries that is listed too; the
\* entries that are not listed impose nothing.
C1_TopoOrder ==
    gpc = "sorted" =>
        /\ topoOut.ok
        /\ \A t \in Range(topoIn) :
              /\ t \in Range(topoOut.order)
              /\ \A d \in Range(config.deps[t]) \cap Range(topoIn) :
                    \A i \in 1..Len(topoOut.order) :
                        topoOut.order[i] = t =>
                            \E j \in 1..(i - 1) : topoOut.order[j] = d

\* a task sorted with one of its dependencies in the list and another left out
C1_Witness ==
    /\ gpc = "sorted"
    /\ topoOut.ok
    /\ \E t \in Range(topoIn) :
          /\ \E d \in Range(config.deps[t]) : d \in Range(topoIn)
          /\ \E d \in Range(config.deps[t]) : d \notin Range(topoIn)

\* C2, as claimed: a task set whose depends_on edges contain a directed cycle fails
\* construction with the cycle or the self-dependency error, and no config is
\* produced.
C2_CycleError ==
    (gpc # "new" /\ HasCycle(rawTasks)) =>
        (~config.present /\ verr.kind \in {"cycle", "self"})

\* C2, amended: a task set whose depends_on edges contain a directed cycle fails
\* construction with a validation error and no config is produced; the error is
\* the cycle or the self-dependency error when every depends_on entry names an
\* existing task.
C2_CycleRejected ==
    (gpc # "new" /\ HasCycle(rawTasks)) =>
        /\ ~config.present
        /\ verr.kind # "ok"
        /\ ~HasUnknownRef(rawTasks) => verr.kind \in {"cycle", "self"}

\* the three-node cycle a -> c -> b -> a is rejected with the cycle error
C2_Witness ==
    /\ gpc = "built"
    /\ rawTasks.keys = <<"a", "b", "c">>
    /\ rawTasks.deps["a"] = <<"c">>
    /\ rawTasks.deps["b"] = <<"a">>
    /\ rawTasks.deps["c"] = <<"b">>
    /\ verr.kind = "cycle"
    /\ ~config.present

\* C3: a task set in which some task lists a depends_on name that is not a key of
\* the task collection fails construction with an error that names the offending
\* task and the missing dependency, and no config is produced.
C3_UnknownDepNamed ==
    (gpc # "new" /\ HasUnknownRef(rawTasks)) =>
        /\ ~config.present
        /\ verr.kind = "unknown"
        /\ verr.task \in Range(rawTasks.keys)
        /\ verr.dep \in Range(rawTasks.deps[verr.task])
        /\ verr.dep \notin Range(rawTasks.keys)

(***************************************************************************)
(* Properties of the orchestrator (Spec)                                   *)
(***************************************************************************)

\* C4: when a session exists and an auto_restart_unhealthy_tasks cycle evaluates a
\* task unhealthy while the Health Record the previous check left says healthy,
\* the cycle calls restart_task for that task.
C4_RestartOnTransition ==
    (lastOp.op = "auto_restart" /\ lastOp.session) =>
        \A t \in TaskKeys(cfg) :
            (lastOp.before[t] = "healthy" /\ lastOp.eval[t] = "unhealthy") =>
                t \in lastOp.restarted

\* C5: a task evaluated unhealthy in two consecutive auto_restart_unhealthy_tasks
\* cycles, with no healthy evaluation in between, is not restarted by the second.
C5_NoRepeatedRestart ==
    (lastOp.op = "auto_restart" /\ lastOp.session) =>
        \A t \in TaskKeys(cfg) :
            (lastOp.before[t] = "unhealthy" /\ lastOp.eval[t] = "unhealthy") =>
                /\ t \notin lastOp.restarted
                /\ <<"call", "restart_task", t>> \notin Range(trace)

\* a cycle has found unhealthy a running task that the cycle before found unhealthy
C5_Witness ==
    /\ lastOp.op = "auto_restart"
    /\ lastOp.session
    /\ \E t \in TaskKeys(cfg) :
          /\ HasWindow(windows, t)
          /\ lastOp.before[t] = "unhealthy"
          /\ lastOp.eval[t] = "unhealthy"

NoAlignment(cur, prev) ==
    ~\E i \in 1..Len(cur) :
        /\ cur[i] = prev[Len(prev)]
        /\ \A k \in 0..(Min(Len(prev), i) - 1) : cur[i - k] = prev[Len(prev) - k]

\* C6: round trip: for every capture C1 and every sequence N of appended lines,
\* whatever the lines, _find_new_lines(C1 + N, the last min(50, |C1|) lines of C1)
\* is exactly N.
C6_RoundTrip ==
    lpc = "roundtrip" => newLines = appended

\* C7: when the remembered tail is empty, or its last line aligns nowhere in the
\* current capture, _find_new_lines returns the whole current capture.
C7_NoAlignmentReturnsAll ==
    (lpc # "new" /\ (prevTail = <<>> \/ NoAlignment(current, prevTail))) =>
        newLines = current

\* the tail's last line occurs in the capture, but not after the line before it
C7_Witness ==
    /\ lpc = "diff"
    /\ Len(prevTail) >= 2
    /\ prevTail[Len(prevTail)] \in Range(current)
    /\ NoAlignment(current, prevTail)
    /\ newLines = current

(***************************************************************************)
(* Properties of _wait_for_healthy (SpecWait)                              *)
(***************************************************************************)

AllProbesFailed == \A i \in 1..Len(probes) : ~probes[i]

\* C8: for a task with health_interval > 0 whose probe always fails,
\* _wait_for_healthy with timeout = health_retries * health_interval never stops
\* short of returning, never sleeps more than health_retries times, and returns
\* false after exactly health_retries sleeps (an accumulated wait equal to the
\* timeout) and health_retries + 1 probes.
C8_FailingProbeBounded ==
    (wInterval > 0 /\ wTimeout = wRetries * wInterval /\ AllProbesFailed) =>
        /\ sleeps <= wRetries
        /\ Len(probes) <= wRetries + 1
        /\ wpc # "done" => ENABLED (WaitProbe \/ WaitSleep \/ WaitFinal)
        /\ wpc = "done" =>
              /\ ~wret
              /\ sleeps = wRetries
              /\ elapsed = wTimeout
              /\ Len(probes) = wRetries + 1

\* three retries at interval 2: four failed probes and the call has returned
C8_Witness ==
    /\ wpc = "done"
    /\ wInterval = 2
    /\ wRetries = 3
    /\ wTimeout = 6
    /\ AllProbesFailed
    /\ Len(probes) = 4
    /\ sleeps = 3

\* C9: the value _wait_for_healthy returns is the result of the last probe it
\* made: true at the first healthy probe, with no sleep after it, and otherwise
\* the result of one more probe made once the accumulated wait has reached the
\* timeout; at least one probe is made whatever the timeout, 0 included.
C9_ReturnsLastProbe ==
    wpc = "done" =>
        /\ Len(probes) >= 1
        /\ wret = probes[Len(probes)]
        /\ \A i \in 1..(Len(probes) - 1) : ~probes[i]
        /\ sleeps = Len(probes) - 1
        /\ elapsed < wTimeout => wret
        /\ ~wret => elapsed >= wTimeout

\* every probe of the loop failed and the probe after the deadline was healthy
C9_Witness ==
    /\ wpc = "done"
    /\ Len(probes) >= 2
    /\ elapsed >= wTimeout
    /\ wret
    /\ probes[Len(probes)]

(***************************************************************************)
(* Properties of the liveness fallback and the hook runner (Spec)          *)
(***************************************************************************)

\* the names of the interactive shells a pane runs when it is idle
IdleShells == {"bash", "zsh", "sh", "fish"}

\* C11: for a task with no health-check command, is_task_healthy is true iff the
\* session exists, the task has a window and the foreground command of its pane is
\* neither empty nor the name of an idle interactive shell (bash, zsh, sh, ...).
C11_LivenessFallback ==
    (/\ lastOp.op = "is_task_healthy"
     /\ lastOp.task \in TaskKeys(cfg)
     /\ cfg.tasks[lastOp.task].health_check = "none") =>
        (lastOp.ret <=>
            /\ session
            /\ HasWindow(windows, lastOp.task)
            /\ windows[WindowOf(windows, lastOp.task)].cmd \notin {""} \cup IdleShells)

\* C12: runHook returns true iff the command is None, and then nothing is executed,
\* or the command exits with code 0; a non-zero exit, the timeout and any other
\* execution error give false; runHook never raises.
C12_RunHookResult ==
    lastOp.op = "runHook" =>
        /\ lastOp.ret <=> (lastOp.cmd = "none" \/ lastOp.outcome = "exit0")
        /\ lastOp.cmd = "none" => ~lastOp.executed
        /\ ~lastOp.raised

\* runHook has run a command that could not be executed
C12_Witness ==
    /\ lastOp.op = "runHook"
    /\ lastOp.executed
    /\ lastOp.outcome = "OSError"
    /\ ~lastOp.ret

(***************************************************************************)
(* Properties of the single-task operations (Spec)                         *)
(***************************************************************************)

\* what an operation did after it made sure that a session exists
AfterSession(tr) == SelectSeq(tr, LAMBDA e : e[1] # "new_session")

\* the two ways of realizing the command of task t in a pane of its own
Realizations(t) ==
    {<< <<"new_window", t>>, <<"keys", t, "command">> >>,
     << <<"rename_window", t>>, <<"keys", t, "command">> >>}

\* C13: start_task on a known task that has no window runs the global before_start
\* hook, the task's before_start hook, realizes the command in a pane, then runs the
\* task's after_start hook and the global after_start hook, in this order; when a
\* before_start hook fails it is the last step: no command is sent to a pane and
\* no after_start hook runs.
C13_StartSequence ==
    (/\ lastOp.op = "start_task"
     /\ lastOp.task \in TaskKeys(cfg)
     /\ ~lastOp.had_window) =>
        LET t == lastOp.task
            gb == HookEvents(cfg.hooks["before_start"], "global", "before_start", t)
            tb == HookEvents(cfg.tasks[t].hooks["before_start"], "task", "before_start", t)
            ta == HookEvents(cfg.tasks[t].hooks["after_start"], "task", "after_start", t)
            ga == HookEvents(cfg.hooks["after_start"], "global", "after_start", t)
        IN  IF cfg.hooks["before_start"] = "fail"
            THEN AfterSession(trace) = gb
            ELSE IF cfg.tasks[t].hooks["before_start"] = "fail"
            THEN AfterSession(trace) = gb \o tb
            ELSE \E r \in Realizations(t) : AfterSession(trace) = gb \o tb \o r \o ta \o ga

\* start_task has started a task whose four start hooks are all configured
C13_Witness ==
    /\ lastOp.op = "start_task"
    /\ lastOp.task \in TaskKeys(cfg)
    /\ ~lastOp.had_window
    /\ cfg.hooks["before_start"] = "ok"
    /\ cfg.tasks[lastOp.task].hooks["before_start"] = "ok"
    /\ Len(AfterSession(trace)) = 6
    /\ HasWindow(windows, lastOp.task)

\* C19: stop_task on a known task that has a window runs the global before_stop
\* hook, the task's before_stop hook, sends one interrupt to the task's pane, then
\* runs the task's after_stop hook and the global after_stop hook, in this order
\* and whatever each hook returns.
C19_StopSequence ==
    (/\ lastOp.op = "stop_task"
     /\ lastOp.task \in TaskKeys(cfg)
     /\ lastOp.had_window) =>
        LET t == lastOp.task
        IN  trace =
                HookEvents(cfg.hooks["before_stop"], "global", "before_stop", t)
                \o HookEvents(cfg.tasks[t].hooks["before_stop"], "task", "before_stop", t)
                \o << <<"keys", t, "C-c">> >>
                \o HookEvents(cfg.tasks[t].hooks["after_stop"], "task", "after_stop", t)
                \o HookEvents(cfg.hooks["after_stop"], "global", "after_stop", t)

\* stop_task has stopped a task whose global stop hooks fail and whose own succeed
C19_Witness ==
    /\ lastOp.op = "stop_task"
    /\ lastOp.had_window
    /\ cfg.hooks["before_stop"] = "fail"
    /\ cfg.tasks[lastOp.task].hooks["before_stop"] = "ok"
    /\ Len(trace) = 5
    /\ trace[3] = <<"keys", lastOp.task, "C-c">>

\* C20: stop_task creates and destroys no window and no session: the windows, and
\* so the running status of every task, are after it what they were before; on a
\* task that has no window it runs no hook and sends no interrupt either.
C20_StopKeepsWindows ==
    lastOp.op = "stop_task" =>
        /\ session = lastOp.before_session
        /\ windows = lastOp.before_windows
        /\ ~lastOp.had_window => trace = <<>>

\* stop_task was called in a session for a known task that has no window and whose
\* hooks are configured; and the session has windows of other tasks
C20_Witness ==
    /\ lastOp.op = "stop_task"
    /\ lastOp.task \in TaskKeys(cfg)
    /\ session
    /\ windows # <<>>
    /\ ~lastOp.had_window
    /\ cfg.hooks["before_stop"] = "ok"
    /\ trace = <<>>

\* C18: restart_task does what stop_task followed by start_task does: the same
\* hook invocations and the same calls to tmux, for every task and session state.
C18_RestartIsStopThenStart ==
    [][lastOp'.op = "restart_task" =>
          LET t == lastOp'.task
              w == StartTaskOp(cfg, StopTaskOp(cfg, World, t), shell, t)
          IN  /\ session' = w.session
              /\ windows' = w.windows
              /\ Tail(trace') = w.trace]_vars

\* event e is the execution of a hook
IsHook(e) == e[1] = "hook"

\* C26: kill_task runs no hook, global or of the task; it destroys the window of
\* that name when there is one, and changes nothing when there is no session or
\* no window of that name.
C26_KillBypassesHooks ==
    [][lastOp'.op = "kill_task" =>
          /\ \A i \in 1..Len(trace') : ~IsHook(trace'[i])
          /\ IF session /\ HasWindow(windows, lastOp'.task)
             THEN /\ windows' = RemoveAt(windows, WindowOf(windows, lastOp'.task))
                  /\ ~HasWindow(windows', lastOp'.task)
             ELSE /\ windows' = windows
                  /\ session' = session
                  /\ trace' = <<>>]_vars

\* kill_task has destroyed the window of a task whose hooks are configured, in a
\* session that keeps another window
C26_Witness ==
    /\ lastOp.op = "kill_task"
    /\ lastOp.task \in TaskKeys(cfg)
    /\ lastOp.had_window
    /\ cfg.hooks["before_stop"] = "ok"
    /\ cfg.tasks[lastOp.task].hooks["before_stop"] = "ok"
    /\ trace = << <<"kill_window", lastOp.task>> >>
    /\ session
    /\ windows # <<>>

\* the operations that take a task name
NamedOps ==
    {"start_task", "stop_task", "restart_task", "kill_task", "is_task_healthy",
     "inspect_task"}

\* C27: for a name that is not a task of the config, and in every session state,
\* start_task, stop_task, restart_task, kill_task, is_task_healthy and
\* inspect_task return without raising and leave the session, the windows and the
\* hooks untouched; is_task_healthy returns false without running a probe.
C27_UnknownNameIsNoOp ==
    [][(lastOp'.op \in NamedOps /\ lastOp'.task \notin TaskKeys(cfg)) =>
          /\ session' = session
          /\ windows' = windows
          /\ \A i \in 1..Len(trace') : ~IsHook(trace'[i])
          /\ lastOp'.op = "is_task_healthy" =>
                ~lastOp'.ret /\ ~lastOp'.raised /\ ~lastOp'.pane_read
          /\ lastOp'.op = "inspect_task" => lastOp'.error /\ ~lastOp'.raised]_vars

(***************************************************************************)
(* Properties of start_all (SpecGroup)                                     *)
(***************************************************************************)

\* the command of task t was sent to a pane
Launched(tr, t) == <<"keys", t, "command">> \in Range(tr)

\* event e is a step of the start of task t itself: a start hook of t, its window
\* or its command
IsStartStep(e, t) ==
    \/ e = <<"keys", t, "command">>
    \/ e = <<"new_window", t>>
    \/ e = <<"rename_window", t>>
    \/ (e[1] = "hook" /\ e[2] = "task" /\ e[4] = t)

\* C14: in start_all a task is launched only after, for each of its depends_on
\* entries that is an auto-start task, a wait on that dependency has returned
\* healthy, the wait's timeout being the dependency's health_retries times the
\* dependency's health_interval; no wait is made on anything else, and the waits of
\* a task precede its before_start hook and its launch.
C14_DepsWaitedFirst ==
    lastOp.op = "start_all" =>
        \A i \in 1..Len(trace) :
            /\ \A t \in TaskKeys(cfg) :
                  trace[i] = <<"keys", t, "command">> =>
                      \A d \in Range(cfg.tasks[t].depends_on) :
                          cfg.tasks[d].auto_start =>
                              \E j \in 1..(i - 1) :
                                  trace[j] = <<"wait", t, d,
                                               ToString(cfg.tasks[d].health_retries
                                                        * cfg.tasks[d].health_interval),
                                               "healthy">>
            /\ trace[i][1] = "wait" =>
                  LET t == trace[i][2]
                      d == trace[i][3]
                  IN  /\ d \in Range(cfg.tasks[t].depends_on)
                      /\ cfg.tasks[d].auto_start
                      /\ trace[i][4] = ToString(cfg.tasks[d].health_retries
                                                * cfg.tasks[d].health_interval)
                      /\ \A j \in 1..Len(trace) : IsStartStep(trace[j], t) => i < j

\* start_all has launched api, with its before_start hook, after a wait of 3 * 2
\* seconds found db healthy
C14_Witness ==
    /\ lastOp.op = "start_all"
    /\ <<"wait", "api", "db", "6", "healthy">> \in Range(trace)
    /\ Launched(trace, "api")
    /\ cfg.tasks["api"].hooks["before_start"] = "ok"

\* a dependency wait of task t timed out
TimedOut(tr, t) ==
    \E i \in 1..Len(tr) : tr[i][1] = "wait" /\ tr[i][2] = t /\ tr[i][5] = "timeout"

\* C15: when a dependency wait times out in start_all, the waiting task is skipped
\* and nothing else is: every auto-start task none of whose waits timed out is
\* launched, the later ones in the scheduling order included, and the global
\* after_start hook runs as the last step.
C15_SkipOnlyTheWaiter ==
    (lastOp.op = "start_all" /\ \E t \in TaskKeys(cfg) : TimedOut(trace, t)) =>
        /\ \A u \in Range(AutoTasks(cfg)) : Launched(trace, u) <=> ~TimedOut(trace, u)
        /\ cfg.hooks["after_start"] # "none" =>
              trace[Len(trace)] =
                  <<"hook", "global", "after_start", "", cfg.hooks["after_start"]>>

\* api was skipped because db was not healthy in time, web was launched after that
\* and the global after_start hook ran
C15_Witness ==
    /\ lastOp.op = "start_all"
    /\ TimedOut(trace, "api")
    /\ ~Launched(trace, "api")
    /\ \E i, j \in 1..Len(trace) :
          /\ i < j
          /\ trace[i] = <<"wait", "api", "db", "6", "timeout">>
          /\ trace[j] = <<"keys", "web", "command">>
    /\ trace[Len(trace)] = <<"hook", "global", "after_start", "", "ok">>

\* C16: in start_all a task whose own before_start hook fails is not started: its
\* command is sent to no pane and its after_start hook does not run.
C16_FailedHookNotStarted ==
    lastOp.op = "start_all" =>
        \A t \in TaskKeys(cfg) :
            (/\ cfg.tasks[t].hooks["before_start"] = "fail"
             /\ <<"hook", "task", "before_start", t, "fail">> \in Range(trace)) =>
                /\ ~Launched(trace, t)
                /\ \A i \in 1..Len(trace) :
                      ~(/\ trace[i][1] = "hook"
                        /\ trace[i][2] = "task"
                        /\ trace[i][3] = "after_start"
                        /\ trace[i][4] = t)

\* C17: when the global before_start hook fails in start_all, the operation stops:
\* no session is created, no task is launched and no other hook runs.
C17_GlobalHookAborts ==
    (/\ lastOp.op = "start_all"
     /\ \E i \in 1..Len(trace) : trace[i] = <<"hook", "global", "before_start", "", "fail">>) =>
        /\ ~session
        /\ windows = <<>>
        /\ trace = << <<"hook", "global", "before_start", "", "fail">> >>

\* start_all has run a failing global before_start hook, on a config whose tasks
\* have hooks of their own
C17_Witness ==
    /\ lastOp.op = "start_all"
    /\ ~lastOp.had_session
    /\ cfg.hooks["before_start"] = "fail"
    /\ cfg.tasks["db"].auto_start
    /\ cfg.tasks["db"].hooks["before_start"] = "ok"
    /\ trace # <<>>
    /\ ~session

(***************************************************************************)
(* Properties of stop_all and restart_all (SpecGroup)                      *)
(***************************************************************************)

\* the stop steps of the tasks of c that have a window in wins, from the k-th task
\* on: before_stop hook, interrupt, after_stop hook
RECURSIVE TaskStops(_, _, _)
TaskStops(c, wins, k) ==
    IF k > Len(c.keys) THEN <<>>
    ELSE LET t == c.keys[k]
         IN  (IF HasWindow(wins, t)
              THEN HookEvents(c.tasks[t].hooks["before_stop"], "task", "before_stop", t)
                   \o << <<"keys", t, "C-c">> >>
                   \o HookEvents(c.tasks[t].hooks["after_stop"], "task", "after_stop", t)
              ELSE <<>>)
             \o TaskStops(c, wins, k + 1)

\* C21: stop_all on an existing session runs the global before_stop hook, then for
\* each task of the config that has a window, and for no other, its before_stop
\* hook, an interrupt and its after_stop hook, then destroys the session, then runs
\* the global after_stop hook, whatever the hooks return; without a session it
\* does nothing.
C21_StopAllSequence ==
    lastOp.op = "stop_all" =>
        IF lastOp.had_session
        THEN /\ trace =
                    HookEvents(cfg.hooks["before_stop"], "global", "before_stop", "")
                    \o TaskStops(cfg, lastOp.before_windows, 1)
                    \o << <<"kill_session">> >>
                    \o HookEvents(cfg.hooks["after_stop"], "global", "after_stop", "")
             /\ ~session
             /\ windows = <<>>
        ELSE trace = <<>> /\ ~session /\ windows = <<>>

\* stop_all has stopped a session in which one task had a window and another had
\* none, and the stop hooks of the tasks fail
C21_Witness ==
    /\ lastOp.op = "stop_all"
    /\ lastOp.had_session
    /\ \E t, u \in TaskKeys(cfg) :
          /\ HasWindow(lastOp.before_windows, t)
          /\ ~HasWindow(lastOp.before_windows, u)
          /\ cfg.tasks[t].hooks["before_stop"] = "fail"
    /\ cfg.hooks["after_stop"] = "ok"
    /\ ~session

\* C22: restart_all is stop_all then start_all, and the start_all phase reads the
\* session from the server again: whether or not a session existed, when the
\* config's auto_start flag is true, some task is an auto-start task and the global
\* before_start hook succeeds, a new session is created, after the old one was
\* destroyed, and tasks are launched.
C22_RestartAllStartsAfresh ==
    (/\ lastOp.op = "restart_all"
     /\ cfg.auto_start
     /\ AutoTasks(cfg) # <<>>
     /\ cfg.hooks["before_start"] # "fail") =>
        /\ session
        /\ \E t \in Range(AutoTasks(cfg)) : Launched(trace, t) /\ HasWindow(windows, t)
        /\ \E j \in 1..Len(trace) :
              /\ trace[j] = <<"new_session">>
              /\ lastOp.had_session =>
                    \E i \in 1..(j - 1) : trace[i] = <<"kill_session">>
              /\ \A i \in 1..Len(trace) : trace[i] = <<"kill_session">> => i < j

\* restart_all has replaced an existing session by a new one and launched a task
C22_Witness ==
    /\ lastOp.op = "restart_all"
    /\ lastOp.had_session
    /\ <<"kill_session">> \in Range(trace)
    /\ <<"new_session">> \in Range(trace)
    /\ session
    /\ \E t \in TaskKeys(cfg) : Launched(trace, t)

\* C23: start_all launches no task whose auto_start is false; when no task has
\* auto_start = true it creates no session, runs no hook and launches nothing.
C23_OnlyAutoStartTasks ==
    lastOp.op = "start_all" =>
        /\ \A t \in TaskKeys(cfg) : ~cfg.tasks[t].auto_start => ~Launched(trace, t)
        /\ AutoTasks(cfg) = <<>> => trace = <<>>

\* C23, amended: start_all launches no task whose auto_start is false; when the
\* config's auto_start flag is true and no task has auto_start = true it creates
\* no session, runs no hook and launches nothing.
C23_OnlyAutoStartTasksOfAutoGroup ==
    lastOp.op = "start_all" =>
        /\ \A t \in TaskKeys(cfg) : ~cfg.tasks[t].auto_start => ~Launched(trace, t)
        /\ (cfg.auto_start /\ AutoTasks(cfg) = <<>>) =>
              /\ trace = <<>>
              /\ session = lastOp.had_session
              /\ windows = lastOp.before_windows

\* start_all was called without a session on a config that has hooks, whose
\* auto_start flag is true and none of whose tasks is an auto-start task
C23_Witness ==
    /\ lastOp.op = "start_all"
    /\ ~lastOp.had_session
    /\ cfg.auto_start
    /\ AutoTasks(cfg) = <<>>
    /\ cfg.hooks["before_start"] = "ok"
    /\ ~session

\* C24: when the config's auto_start flag is false and no session exists,
\* start_all creates one session, which has no window of a task, launches no task
\* and runs no hook.
C24_EmptySession ==
    (lastOp.op = "start_all" /\ ~lastOp.had_session /\ ~cfg.auto_start) =>
        /\ trace = << <<"new_session">> >>
        /\ session
        /\ windows = << [name |-> shell, cmd |-> shell] >>

\* start_all has created the empty session of a config that has auto-start tasks
\* and hooks
C24_Witness ==
    /\ lastOp.op = "start_all"
    /\ ~lastOp.had_session
    /\ ~cfg.auto_start
    /\ AutoTasks(cfg) # <<>>
    /\ cfg.hooks["before_start"] = "ok"
    /\ session
    /\ Len(windows) = 1

\* C25: when a session already exists, start_all changes nothing: it creates no
\* session, launches no task and runs no hook; so a start_all that follows a
\* start_all that left a session does nothing.
C25_StartAllOnSessionIsNoOp ==
    (lastOp.op = "start_all" /\ lastOp.had_session) =>
        /\ trace = <<>>
        /\ session
        /\ windows = lastOp.before_windows

\* start_all was called on the session of tasks that an earlier start_all left
C25_Witness ==
    /\ lastOp.op = "start_all"
    /\ lastOp.had_session
    /\ cfg.auto_start
    /\ cfg.hooks["before_start"] = "ok"
    /\ \E t \in TaskKeys(cfg) : HasWindow(windows, t)
    /\ \E t \in TaskKeys(cfg) : cfg.tasks[t].auto_start /\ ~HasWindow(windows, t)

(***************************************************************************)
(* Properties of the after_start hooks (SpecOps)                           *)
(***************************************************************************)

\* the after_start hook of task t, or the global one ("" for t), ran and failed
AfterStartFailed(tr, scope, t) == <<"hook", scope, "after_start", t, "fail">> \in Range(tr)

\* C28: in start_task and in start_all a failing after_start hook, of the task or
\* global, neither aborts nor undoes the start: the task keeps its window, and the
\* steps that follow still run: the global after_start hook, and in start_all the
\* remaining tasks.
C28_AfterStartFailureGoesOn ==
    /\ (lastOp.op = "start_task" /\ lastOp.task \in TaskKeys(cfg)) =>
          LET t == lastOp.task
          IN  /\ AfterStartFailed(trace, "task", t) =>
                    /\ session /\ HasWindow(windows, t)
                    /\ cfg.hooks["after_start"] # "none" =>
                          trace[Len(trace)] =
                              <<"hook", "global", "after_start", t, cfg.hooks["after_start"]>>
              /\ AfterStartFailed(trace, "global", t) =>
                    session /\ HasWindow(windows, t) /\ Launched(trace, t)
    /\ lastOp.op = "start_all" =>
          /\ (\E t \in TaskKeys(cfg) : AfterStartFailed(trace, "task", t)) =>
                /\ \A u \in Range(AutoTasks(cfg)) : Launched(trace, u) <=> ~TimedOut(trace, u)
                /\ cfg.hooks["after_start"] # "none" =>
                      trace[Len(trace)] =
                          <<"hook", "global", "after_start", "", cfg.hooks["after_start"]>>
          /\ \A t \in TaskKeys(cfg) :
                (AfterStartFailed(trace, "task", t) \/ AfterStartFailed(trace, "global", "")) =>
                    (Launched(trace, t) => session /\ HasWindow(windows, t))

\* start_all has launched db, whose after_start hook failed, then api, and has
\* run the global after_start hook, which failed too
C28_Witness ==
    /\ lastOp.op = "start_all"
    /\ cfg.tasks["db"].hooks["before_start"] = "ok"
    /\ AfterStartFailed(trace, "task", "db")
    /\ AfterStartFailed(trace, "global", "")
    /\ \E i, j \in 1..Len(trace) :
          /\ i < j
          /\ trace[i] = <<"hook", "task", "after_start", "db", "fail">>
          /\ trace[j] = <<"keys", "api", "command">>
    /\ HasWindow(windows, "db")
    /\ HasWindow(windows, "api")

(***************************************************************************)
(* Properties of the Health Record (Spec)                                  *)
(***************************************************************************)

\* C30: every check of a task made by auto_restart_unhealthy_tasks overwrites the
\* task's Health Record with the result of that check: after a cycle run on an
\* existing session every task has a record, and its healthy flag is what the
\* cycle evaluated.
C30_RecordIsLastCheck ==
    (lastOp.op = "auto_restart" /\ lastOp.session) =>
        \A t \in TaskKeys(cfg) :
            /\ lastOp.eval[t] # "none"
            /\ t \in DOMAIN task_health
            /\ task_health[t].healthy <=> (lastOp.eval[t] = "healthy")

\* a cycle has found unhealthy a task whose record said healthy, and healthy a
\* task whose record said unhealthy
C30_Witness ==
    /\ lastOp.op = "auto_restart"
    /\ lastOp.session
    /\ \E t, u \in TaskKeys(cfg) :
          /\ lastOp.before[t] = "healthy"
          /\ lastOp.eval[t] = "unhealthy"
          /\ ~task_health[t].healthy
          /\ lastOp.before[u] = "unhealthy"
          /\ lastOp.eval[u] = "healthy"
          /\ task_health[u].healthy

(***************************************************************************)
(* Properties of the config reload (SpecDaemon)                            *)
(***************************************************************************)

\* the tasks a request or cycle reports are those of graph g, each with the
\* command (status) or the health check (health cycle) g gives it
ObservationOf(g, kind) ==
    [t \in TaskKeys(g) |->
        IF kind = "status" THEN g.tasks[t].command ELSE g.tasks[t].health_check]

\* C29: a config reload is atomic for the health loop and the API requests: no
\* status request and no health cycle reads the CLI's config and the
\* orchestrator's config while they denote different Task Graphs, and what a
\* finished request or cycle has seen is all of one Task Graph.
C29_ReloadIsAtomic ==
    observed.kind # "none" =>
        /\ ~observed.split
        /\ \E g \in DaemonGraphs : observed.tasks = ObservationOf(g, observed.kind)

(***************************************************************************)
(* Properties of follow mode (SpecFollow)                                  *)
(***************************************************************************)

\* C31: after every poll of a task the remembered tail of that task is the last
\* min(50, n) lines of the capture of that poll, n being the length of the
\* capture without its trailing blank lines.
C31_TailIsOfLastCapture ==
    lpc = "poll" => state[polled] = TailOf(current)

(***************************************************************************)
(* Properties of static grep mode (SpecGrep)                               *)
(***************************************************************************)

\* the 0-based indices within k of the index of a line that contains p
\* case-insensitively, clipped to the buffer
WithinContext(L, p, k) ==
    {i \in 0..(Len(L) - 1) :
        \E j \in 0..(Len(L) - 1) :
            /\ Contains(Lower(L[j + 1]), Lower(p))
            /\ i - j <= k
            /\ j - i <= k}

\* the indices of the printed lines, in the order printed
PrintedIndices ==
    LET ls == SelectSeq(printed, LAMBDA e : e.kind = "line")
    IN  [n \in 1..Len(ls) |-> ls[n].idx]

Ascending(s) == \A n \in 1..(Len(s) - 1) : s[n] < s[n + 1]

\* the lines printed are those within the context of a match, ascending and each
\* once; only the no-match message is printed when no line matches
GrepLinesRight ==
    LET S == WithinContext(grepOutput, grepPattern, grepContext)
    IN  IF S = {} THEN printed = <<PrintedNoMatch>>
        ELSE /\ \A n \in 1..Len(printed) : printed[n].kind \in {"line", "--"}
             /\ Ascending(PrintedIndices)
             /\ Range(PrintedIndices) = S

\* the n-th thing printed is a line that follows, without a separator, a printed
\* line or nothing
Unseparated(n) ==
    /\ printed[n].kind = "line"
    /\ n > 1 => printed[n - 1].kind = "line"

SubsetRoots ==
    SelectSeq(topoIn, LAMBDA n : Range(config.deps[n]) \cap Range(topoIn) = {})

\* C33: the scheduler's result holds every name of the given subset exactly once;
\* the tasks without a dependency inside the subset come first, in the order of
\* the subset, so a subset without internal edges comes back unchanged, and the
\* chain with b depending on a and c on b, given as [a, b, c], yields [a, b, c].
C33_SchedulerOrder ==
    gpc = "sorted" =>
        /\ topoOut.ok
        /\ Len(topoOut.order) = Len(topoIn)
        /\ Range(topoOut.order) = Range(topoIn)
        /\ SubSeq(topoOut.order, 1, Len(SubsetRoots)) = SubsetRoots
        /\ SubsetRoots = topoIn => topoOut.order = topoIn
        /\ (/\ topoIn = <<"a", "b", "c">>
            /\ config.deps["a"] = <<>>
            /\ config.deps["b"] = <<"a">>
            /\ config.deps["c"] = <<"b">>) => topoOut.order = <<"a", "b", "c">>

\* a subset given against the insertion order, with two tasks that wait for
\* nothing and one that waits for both
C33_Witness ==
    /\ gpc = "sorted"
    /\ topoIn = <<"c", "b", "a">>
    /\ SubsetRoots = <<"c", "a">>
    /\ Range(config.deps["b"]) = {"a", "c"}
    /\ topoOut.order = <<"c", "a", "b">>

\* the graph the file holds
StoredGraph == LoadConfig(stored)

\* the three invariants of a Task Graph: every depends_on entry names a task, no
\* task depends on itself, the edges are acyclic
GraphInvariants(tk) ==
    /\ ~HasUnknownRef(tk)
    /\ \A n \in Range(tk.keys) : n \notin Range(tk.deps[n])
    /\ ~HasCycle(tk)

\* the graph an edit asks for
EditedGraph ==
    IF lastEdit.op = "addTask"
    THEN WithTask(LoadConfig(lastEdit.before), lastEdit.name, lastEdit.depends_on)
    ELSE IF lastEdit.name \in Range(lastEdit.before.keys)
    THEN WithoutTask(LoadConfig(lastEdit.before), lastEdit.name)
    ELSE LoadConfig(lastEdit.before)

\* C34: after any sequence of addTask and removeTask calls the stored Task Graph
\* satisfies the three invariants; an edit whose result would violate one fails
\* with a validation error and leaves the stored graph as it was, and every
\* other edit stores its result.
C34_StoredGraphValid ==
    /\ GraphInvariants(StoredGraph)
    /\ lastEdit.op # "none" =>
          /\ lastEdit.error # "ok" <=> ~GraphInvariants(EditedGraph)
          /\ lastEdit.error # "ok" => stored = lastEdit.before
          /\ lastEdit.error = "ok" => StoredGraph = EditedGraph

\* an edit that would close a cycle has been refused, and so has the removal of
\* a task another one depends on, on a stored graph of three tasks
C34_Witness ==
    /\ Len(stored.keys) = 3
    /\ stored = lastEdit.before
    /\ \/ /\ lastEdit.op = "addTask"
          /\ lastEdit.error = "cycle"
          /\ lastEdit.name \notin Range(lastEdit.depends_on)
       \/ /\ lastEdit.op = "removeTask"
          /\ lastEdit.error = "unknown"
    /\ \E n \in Range(stored.keys) : StoredGraph.deps[n] # <<>>

\* some task of tk lists itself in its depends_on
HasSelfRef(tk) == \E t \in Range(tk.keys) : t \in Range(tk.deps[t])

\* C35: validation reports the unknown dependency first, then the self-dependency,
\* then the cycle: a task set with an unknown depends_on entry in any task fails
\* with the unknown-dependency error, and one with a self-dependency and no
\* unknown entry fails with the self-dependency error.
C35_ValidationOrder ==
    gpc # "new" =>
        /\ HasUnknownRef(rawTasks) => verr.kind = "unknown"
        /\ (~HasUnknownRef(rawTasks) /\ HasSelfRef(rawTasks)) => verr.kind = "self"

(***************************************************************************)
(* Properties of the session's windows (SpecGroup, SpecOps)                *)
(***************************************************************************)

\* the tasks whose command was sent, in the order of the sending
LaunchOrder(tr) ==
    LET ks == SelectSeq(tr, LAMBDA e : Len(e) = 3 /\ e[1] = "keys" /\ e[3] = "command")
    IN  [i \in 1..Len(ks) |-> ks[i][2]]

\* the names of the windows, in index order
WindowNames(wins) == [i \in 1..Len(wins) |-> wins[i].name]

\* C36: after start_all has launched at least one task in a new session, the
\* windows of the session are the launched tasks, one window each: the
\* placeholder window was renamed once, to the first task launched, and every
\* other launched task got a new window.
C36_WindowsAreLaunchedTasks ==
    (lastOp.op = "start_all" /\ ~lastOp.had_session /\ LaunchOrder(trace) # <<>>) =>
        LET L == LaunchOrder(trace)
        IN  /\ \A i, j \in 1..Len(L) : i # j => L[i] # L[j]
            /\ WindowNames(windows) = L
            /\ SelectSeq(trace, LAMBDA e : e[1] = "rename_window")
                  = << <<"rename_window", L[1]>> >>
            /\ SelectSeq(trace, LAMBDA e : e[1] = "new_window")
                  = [i \in 1..(Len(L) - 1) |-> <<"new_window", L[i + 1]>>]

\* db took the placeholder window, api was skipped, web got a window of its own
C36_Witness ==
    /\ lastOp.op = "start_all"
    /\ ~lastOp.had_session
    /\ TimedOut(trace, "api")
    /\ WindowNames(windows) = <<"db", "web">>
    /\ <<"rename_window", "db">> \in Range(trace)
    /\ <<"new_window", "web">> \in Range(trace)

\* C37: after any sequence of start, stop, restart, kill, start_all, stop_all and
\* restart_all operations, each complete before the next begins, the session
\* has at most one window of each name.
C37_OneWindowPerName ==
    \A i, j \in 1..Len(windows) : windows[i].name = windows[j].name => i = j

\* db was killed and started again beside api: both have their window again
C37_Witness ==
    /\ lastOp.op = "start_task"
    /\ lastOp.task = "db"
    /\ ~lastOp.had_window
    /\ WindowNames(windows) = <<"api", "db">>

(***************************************************************************)
(* Properties of skipped dependencies in start_all (SpecGroup)             *)
(***************************************************************************)

\* d is an auto-start dependency of the auto-start task t
AutoDependency(c, t, d) ==
    /\ t \in Range(AutoTasks(c))
    /\ d \in Range(AutoTasks(c))
    /\ d \in Range(c.tasks[t].depends_on)

\* C38 as stated: in start_all a task is never launched when one of its auto-start
\* dependencies was not launched in the same start_all.
C38_SkipPropagates ==
    lastOp.op = "start_all" =>
        \A t, d \in TaskKeys(cfg) :
            (AutoDependency(cfg, t, d) /\ ~Launched(trace, d)) => ~Launched(trace, t)

\* C38 (amended): in start_all a task is never launched when one of its auto-start
\* dependencies that has no health-check command was not launched in the same
\* start_all; a dependency that has a health-check command is waited for through
\* that command alone, launched or not.
C38_SkipPropagatesWithoutHealthCheck ==
    lastOp.op = "start_all" =>
        \A t, d \in TaskKeys(cfg) :
            (/\ AutoDependency(cfg, t, d)
             /\ cfg.tasks[d].health_check \in {"none", ""}
             /\ ~Launched(trace, d)) => ~Launched(trace, t)

\* api, which has no health check, was skipped because db was not healthy in time;
\* web waited for api until the timeout and was skipped too
C38_Witness ==
    /\ lastOp.op = "start_all"
    /\ cfg.tasks["api"].health_check = "none"
    /\ Launched(trace, "db")
    /\ <<"wait", "api", "db", "6", "timeout">> \in Range(trace)
    /\ <<"wait", "web", "api", "10", "timeout">> \in Range(trace)
    /\ ~Launched(trace, "api")
    /\ ~Launched(trace, "web")

(***************************************************************************)
(* Properties of concurrent restarts (SpecRestart)                         *)
(***************************************************************************)

\* events i and j belong to the same restart
SameRestart(e, f) == e[1] = f[1] /\ e[2] = f[2]

\* C39: restart sequences of the same task issued concurrently never interleave:
\* between two steps of one restart of a task there is no step of another
\* restart of that task, and the session never has a second window with the
\* name of a task.
C39_RestartsDoNotInterleave ==
    /\ \A i, j, k \in 1..Len(trace) :
          (/\ i < j /\ j < k
           /\ SameRestart(trace[i], trace[k])
           /\ trace[j][3] = trace[i][3]) => SameRestart(trace[i], trace[j])
    /\ \A i, j \in 1..Len(windows) : windows[i].name = windows[j].name => i = j

(***************************************************************************)
(* Properties of start after stop (SpecOps)                                *)
(***************************************************************************)

\* the operation before was op on the task t of the config, which had its window
JustDid(op, t) ==
    /\ lastOp.op = op
    /\ lastOp.task = t
    /\ t \in TaskKeys(cfg)
    /\ lastOp.had_window

\* the command of t is typed in this step
CommandSent(t) == <<"keys", t, "command">> \in Range(trace')

\* C40: after stop_task on a task that has its window, start_task on that task
\* runs no hook and sends nothing, and leaves the windows as they are: the window
\* of the task is still there. restart_task on that task sends the command again,
\* and so does start_task after kill_task on that task, when the before_start
\* hooks let it; a start_task that sends the command always found no window.
C40_StartAfterStopSendsNothing ==
    [][\A t \in TaskKeys(cfg) :
          /\ (JustDid("stop_task", t) /\ lastOp'.op = "start_task" /\ lastOp'.task = t)
                => /\ trace' = <<>>
                   /\ windows' = windows
                   /\ session' = session
                   /\ HasWindow(windows', t)
          /\ (JustDid("stop_task", t) /\ lastOp'.op = "restart_task" /\ lastOp'.task = t)
                => /\ CommandSent(t)
                   /\ windows' = windows
          /\ (/\ JustDid("kill_task", t) /\ lastOp'.op = "start_task" /\ lastOp'.task = t
              /\ RunHook(cfg.hooks["before_start"])
              /\ RunHook(cfg.tasks[t].hooks["before_start"]))
                => CommandSent(t) /\ HasWindow(windows', t)
          /\ (lastOp'.op = "start_task" /\ lastOp'.task = t /\ CommandSent(t))
                => ~lastOp'.had_window]_vars

\* db, whose hooks are all configured, was stopped and then started: its window
\* is there, beside that of api, and nothing was run
C40_Witness ==
    /\ lastOp.op = "start_task"
    /\ lastOp.task = "db"
    /\ lastOp.after = "stop_task"
    /\ lastOp.had_window
    /\ cfg.tasks["db"].hooks["before_start"] = "ok"
    /\ cfg.hooks["before_start"] = "ok"
    /\ Len(windows) = 2
    /\ trace = <<>>

====
